---- MODULE Spec2Model ----
(***************************************************************************)
(* Simulation core of src/rts/rts.py: units, buildings, production queues, *)
(* players, the AI poll and the game tick.                                 *)
(*                                                                         *)
(* Numbers.  The program computes with floats; the model computes with     *)
(* exact fixed-point integers.  A frame time dt is a whole number of       *)
(* milliseconds (clock.tick), so tick_scale(dt) = 60*dt/1000 is a multiple *)
(* of 1/50: logical ticks, build times and health are counted in 1/FP      *)
(* units and resources in 1/(1000*FP) units.  Positions are whole pixels   *)
(* (Unit.set_location truncates them every step).                          *)
(***************************************************************************)
EXTENDS Integers, Sequences, FiniteSets, TLC

VARIABLES unit,      \* every Unit object ever created, by identity 1..Len(unit)
          pl,        \* the two Player objects, by side: 0 human, 1 computer
          mapUnits,  \* Map.units
          game,      \* Game fields and ComputerPlayer.ai_timer
          log        \* calls made by the last step (history, for the properties)

vars == <<unit, pl, mapUnits, game, log>>

----------------------------------------------------------------------------
(* Bounds of the model *)

MaxUnits == 7        \* Unit objects created in one run
MaxFrames == 2       \* calls of Game.update in one run
MaxClicks == 5       \* human input events in one run
MaxQueueFrames == 2  \* the same, in the runs of SpecQueue
MaxQueueClicks == 6
MaxBuildFrames == 1  \* the same, in the runs of SpecBuild
MaxBuildClicks == 6
MaxBattleFrames == 7 \* the same, in the runs of SpecBattle
MaxBattleClicks == 2
MaxPower == 3        \* the inputs of SpecAttack
MaxDefense == 2
MaxAttacks == 3
MaxSupplyFrames == 3 \* the same, in the runs of SpecSupply
MaxSupplyClicks == 4
MaxSelectFrames == 1 \* the same, in the runs of SpecSelect
MaxSelectClicks == 4
MaxRebuildFrames == 2 \* the same, in the runs of SpecRebuild
MaxRebuildClicks == 3
MaxBlockFrames == 3  \* the same, in the runs of SpecBlock
MaxBlockClicks == 2
MaxFree == 1         \* scanned places the human has left free at the start of SpecBlock
MaxEndFrames == 5    \* the same, in the runs of SpecEnd
MaxDragEvents == 5   \* mouse events in the runs of SpecDrag
MaxMoves == 2        \* movement steps in the runs of SpecMove
MaxFights == 3       \* act passes in the runs of SpecFight
MaxFightClicks == 2  \* right clicks in the runs of SpecFight
MaxPollFrames == 5   \* frames in the runs of SpecPoll
MaxDropFrames == 4   \* frames in the runs of SpecDrop
MaxDropClicks == 2   \* presses of the drop button in the runs of SpecDrop
MaxRazeFrames == 3   \* frames in the runs of SpecRaze
MaxRazeClicks == 2   \* inputs of the human in the runs of SpecRaze
MaxGangFrames == 3   \* act passes in the runs of SpecGang
MaxGangClicks == 1   \* right clicks in the runs of SpecGang
MaxHeadroom == 2     \* population the human may still add at the start of SpecSupply

----------------------------------------------------------------------------
(* Scales and program constants *)

FP == 50
RES == 1000 * FP

tick_scale(dt) == 3 * dt     \* dt in ms; result in 1/FP logical ticks

MapWidth == 3000
MapHeight == 3000
QueueCapacity == 5
supplyDepotLimit == 30
comandCeneterLimit == 3
InitialResources == 800
SelectionSlots == 12
SightMargin == 300
SpaceMargin == 3
HeroRegen == 2
UpgradeCost == 200
UpgradeBonus == 2
DIFFICULTY == 2000
DRAG_THRESH == 4
ScreenW == 500
ScreenH == 500
EndDelay == 300

None == 0

BuildingKinds == {"Tara", "ComandCenter", "Barracks", "Stables", "SupplyDepot"}
HeroKinds == {"BrianBoru", "Sigurd"}
OffensiveKinds == {"Spearman", "Swordsman", "Horseman"} \cup HeroKinds
InfantryKinds == OffensiveKinds \cup {"Builder"}
Kinds == BuildingKinds \cup InfantryKinds

IsBuilding(k) == k \in BuildingKinds
IsComandCenter(k) == k \in {"Tara", "ComandCenter"}
IsHero(k) == k \in HeroKinds
IsOffensive(k) == k \in OffensiveKinds
IsInfantry(k) == k \in InfantryKinds

Width(k) ==
  CASE k = "Builder" -> 25
    [] k \in {"Spearman", "Swordsman"} -> 30
    [] k = "Horseman" -> 50
    [] k \in HeroKinds -> 40
    [] k = "Barracks" -> 90
    [] k = "Stables" -> 120
    [] k \in {"Tara", "ComandCenter"} -> 100
    [] k = "SupplyDepot" -> 50

Height(k) == IF k = "Stables" THEN 80 ELSE Width(k)

maxHealth(k) ==
  CASE k = "Builder" -> 50
    [] k = "Spearman" -> 70
    [] k = "Swordsman" -> 100
    [] k = "Horseman" -> 150
    [] k \in HeroKinds -> 1000
    [] k = "Barracks" -> 2000
    [] k = "Stables" -> 2500
    [] k \in {"Tara", "ComandCenter"} -> 10000
    [] k = "SupplyDepot" -> 1000

cost(k) ==
  CASE k = "Builder" -> 30
    [] k = "Spearman" -> 60
    [] k = "Swordsman" -> 90
    [] k = "Horseman" -> 150
    [] k \in HeroKinds -> 400
    [] k = "Barracks" -> 150
    [] k = "Stables" -> 200
    [] k \in {"Tara", "ComandCenter"} -> 400
    [] k = "SupplyDepot" -> 40

build_time(k) ==
  CASE k = "Builder" -> 100
    [] k = "Spearman" -> 200
    [] k = "Swordsman" -> 250
    [] k = "Horseman" -> 350
    [] k \in HeroKinds -> 900
    [] k = "Barracks" -> 600
    [] k = "Stables" -> 2500
    [] k \in {"Tara", "ComandCenter"} -> 900
    [] k = "SupplyDepot" -> 300

initialPower(k) ==
  CASE k = "Swordsman" -> 2
    [] k = "Horseman" -> 1 * 2 + 2
    [] k \in HeroKinds -> 10
    [] OTHER -> 1

speed(k) ==
  CASE k = "Horseman" -> 7
    [] k \in HeroKinds -> 6
    [] OTHER -> 3

unitValue(k) == IF k = "Horseman" THEN 2 ELSE 1

supportedUnits(k) ==
  CASE k \in {"Tara", "ComandCenter"} -> 20
    [] k = "SupplyDepot" -> 10
    [] OTHER -> 1

\* resourceIncrease in thousandths of a resource per logical tick
resourceIncrease(k) ==
  CASE k \in {"Tara", "ComandCenter"} -> 80
    [] k = "SupplyDepot" -> 40
    [] OTHER -> 1

----------------------------------------------------------------------------
(* pygame.Rect *)

Rect(x, y, w, h) == [x |-> x, y |-> y, w |-> w, h |-> h]

colliderect(a, b) ==
  /\ a.w # 0 /\ a.h # 0 /\ b.w # 0 /\ b.h # 0
  /\ a.x < b.x + b.w /\ a.y < b.y + b.h
  /\ a.x + a.w > b.x /\ a.y + a.h > b.y

collidepoint(r, px, py) ==
  /\ r.x <= px /\ px < r.x + r.w
  /\ r.y <= py /\ py < r.y + r.h

\* clamp without its bounds: C1 must fail when movement uses it
clamp_unbounded(v, lo, hi) == v

clamp(v, lo, hi) == IF v < lo THEN lo ELSE IF v > hi THEN hi ELSE v

\* int(): truncation toward zero of a value counted in 1/FP
int(v) == IF v >= 0 THEN v \div FP ELSE -((-v) \div FP)

\* list.remove(e): drops the first occurrence, nothing when absent
RECURSIVE list_remove(_, _)
list_remove(s, e) ==
  IF s = <<>> THEN <<>>
  ELSE IF Head(s) = e THEN Tail(s)
  ELSE <<Head(s)>> \o list_remove(Tail(s), e)

Contains(s, e) == \E i \in 1..Len(s) : s[i] = e

----------------------------------------------------------------------------
(* Unit objects *)

Unit(k, side) ==
  [kind |-> k, side |-> side,
   x |-> 0, y |-> 0,
   personal_space |-> Rect(0, 0, 0, 0),
   selected |-> FALSE,
   health |-> maxHealth(k) * FP,
   buildTime |-> build_time(k) * FP,
   didInitializeAfterBuild |-> FALSE,
   queue |-> <<>>,
   obsession |-> None,
   destinationX |-> 100, destinationY |-> 100,
   setDestinationEnabled |-> FALSE,
   reselect |-> FALSE,
   holdPosition |-> FALSE,
   ignoreEnemies |-> FALSE,
   power |-> initialPower(k),
   defense |-> 0,
   attacking |-> FALSE,
   attackMoving |-> FALSE,
   hasSpearman |-> (k = "Horseman"),
   toBuild |-> None,
   building |-> FALSE,
   selectingToBuild |-> FALSE,
   tracked |-> FALSE,
   moved |-> FALSE]

rect(u) == Rect(u.x, u.y, Width(u.kind), Height(u.kind))

sight(u) ==
  Rect(u.personal_space.x + SpaceMargin - SightMargin,
       u.personal_space.y + SpaceMargin - SightMargin,
       IF u.personal_space.w = 0 THEN 0
       ELSE u.personal_space.w - 2 * SpaceMargin + 2 * SightMargin,
       IF u.personal_space.h = 0 THEN 0
       ELSE u.personal_space.h - 2 * SpaceMargin + 2 * SightMargin)

is_being_built(u) == u.buildTime > 0

at_destination(u) ==
  /\ u.x + 1 > u.destinationX /\ u.x - 1 < u.destinationX
  /\ u.y + 1 > u.destinationY /\ u.y - 1 < u.destinationY

Player ==
  [units |-> <<>>,
   builder_mode |-> None,
   supplyDepotCount |-> 0,
   comandCenterCount |-> 0,
   hasHero |-> FALSE,
   attackUpgrade |-> FALSE,
   resources |-> InitialResources * RES,
   totalUnitsValue |-> 0,
   supportedUnitsValue |-> 0]

----------------------------------------------------------------------------
(* The world W = [unit, pl, mapUnits, game, log, ret] is threaded through  *)
(* the methods; ret is the value the last call returned.                   *)

\* a map on which nothing collides: C18 must fail under it
Map_never_colliding(W, r) == FALSE

Map_is_colliding_with_unit(W, r) ==
  \E i \in 1..Len(W.mapUnits) : colliderect(rect(W.unit[W.mapUnits[i]]), r)

Map_unit_in_bounds(r) ==
  /\ r.x > 0 /\ r.x + r.w < MapWidth
  /\ r.y > 0 /\ r.y + r.h < MapHeight

\* first unit of Map.units whose rect holds the point, else None
Map_get_unit_at_point(W, px, py) ==
  LET hits == {i \in 1..Len(W.mapUnits) : collidepoint(rect(W.unit[W.mapUnits[i]]), px, py)}
  IN IF hits = {} THEN None
     ELSE W.mapUnits[CHOOSE i \in hits : \A j \in hits : i <= j]

\* Player.selected_units without its None padding
RECURSIVE selected_prefix(_, _, _)
selected_prefix(W, us, room) ==
  IF us = <<>> \/ room = 0 THEN <<>>
  ELSE IF W.unit[Head(us)].selected
       THEN <<Head(us)>> \o selected_prefix(W, Tail(us), room - 1)
       ELSE selected_prefix(W, Tail(us), room)

selected_units(W, p) == selected_prefix(W, W.pl[p].units, SelectionSlots)

\* the selected units beyond the twelfth are deselected
update_selected_units(W, p) ==
  LET keep == selected_units(W, p)
      us == W.pl[p].units
      extra == {us[i] : i \in 1..Len(us)} \ {keep[i] : i \in 1..Len(keep)}
  IN [W EXCEPT !.unit = [i \in 1..Len(W.unit) |->
        IF i \in extra /\ W.unit[i].selected /\ Len(keep) = SelectionSlots
        THEN [W.unit[i] EXCEPT !.selected = FALSE] ELSE W.unit[i]]]

\* the guards of Player.add_unit: the hero already owned, the counter at its limit,
\* the strict comparison of the cost with the balance
\* add_unit without the hero guard: C6 must fail under it
has_hero_already_ignored(P, k) == FALSE

has_hero_already(P, k) == IsHero(k) /\ P.hasHero

\* the limits tested with > in place of >=: C10 must fail under it
limit_reached_late(P, k) ==
  \/ IsComandCenter(k) /\ P.comandCenterCount > comandCeneterLimit
  \/ k = "SupplyDepot" /\ P.supplyDepotCount > supplyDepotLimit

limit_reached(P, k) ==
  \/ IsComandCenter(k) /\ P.comandCenterCount >= comandCeneterLimit
  \/ k = "SupplyDepot" /\ P.supplyDepotCount >= supplyDepotLimit

\* add_unit without the comparison of cost and balance: C9 must fail under it
enough_resources_always(P, k) == TRUE

enough_resources(P, k) == cost(k) * RES < P.resources

\* add_unit without the population check: C11 must fail under it
enough_supply_always(P, k) == TRUE

\* the population check of add_unit: only Infantry counts
enough_supply(P, k) ==
  IsInfantry(k) => unitValue(k) <= P.supportedUnitsValue - P.totalUnitsValue

\* the successful branch without the hero flag: C7 must fail under it
append_unit_no_flag(P, k, id) ==
  [P EXCEPT !.resources = @ - cost(k) * RES,
            !.units = Append(@, id),
            !.totalUnitsValue = IF IsInfantry(k) THEN @ + unitValue(k) ELSE @]

\* the successful branch without the debit: C12 must fail under it
append_unit_no_debit(P, k, id) ==
  [P EXCEPT !.hasHero = IF IsHero(k) THEN TRUE ELSE @,
            !.units = Append(@, id),
            !.totalUnitsValue = IF IsInfantry(k) THEN @ + unitValue(k) ELSE @]

\* the successful branch of Player.add_unit, with Infantry.get_unit_to_add
append_unit(P, k, id) ==
  [P EXCEPT !.resources = @ - cost(k) * RES,
            !.hasHero = IF IsHero(k) THEN TRUE ELSE @,
            !.units = Append(@, id),
            !.totalUnitsValue = IF IsInfantry(k) THEN @ + unitValue(k) ELSE @]

\* Player.add_unit(u); logs the call with the player before and after it
Player_add_unit(W, p, id) ==
  LET u == W.unit[id]
      k == u.kind
      P == W.pl[p]
      refused == has_hero_already(P, k) \/ limit_reached(P, k)
      P1 == [P EXCEPT !.comandCenterCount = IF IsComandCenter(k) THEN @ + 1 ELSE @,
                      !.supplyDepotCount = IF k = "SupplyDepot" THEN @ + 1 ELSE @]
      ok == ~refused /\ enough_resources(P1, k) /\ enough_supply(P1, k)
      Pn == IF refused THEN P ELSE IF ok THEN append_unit(P1, k, id) ELSE P1
      entry == [side |-> p, id |-> id, kind |-> k, ok |-> ok,
                before |-> P, after |-> Pn,
                mapBefore |-> W.mapUnits,
                mapAfter |-> IF ok THEN Append(W.mapUnits, id) ELSE W.mapUnits]
  IN [W EXCEPT !.pl[p] = Pn,
               !.mapUnits = IF ok THEN Append(@, id) ELSE @,
               !.log.add = Append(@, entry),
               !.ret = ok]

ComputerPlayer_add_unit(W, id) ==
  IF ~Map_is_colliding_with_unit(W, rect(W.unit[id]))
  THEN LET W1 == Player_add_unit(W, 1, id)
       IN IF W1.ret THEN [W1 EXCEPT !.unit[id].tracked = TRUE] ELSE W1
  ELSE [W EXCEPT !.ret = FALSE]

add_unit(W, p, id) ==
  IF p = 1 THEN ComputerPlayer_add_unit(W, id) ELSE Player_add_unit(W, p, id)

Player_remove_unit(W, p, id) ==
  LET W1 == [W EXCEPT !.pl[p].hasHero = IF IsHero(W.unit[id].kind) THEN FALSE ELSE @,
                      !.pl[p].units = list_remove(@, id),
                      !.mapUnits = list_remove(@, id)]
  IN update_selected_units(W1, p)

ComputerPlayer_remove_unit(W, id) ==
  LET W1 == Player_remove_unit(W, 1, id)
  IN [W1 EXCEPT !.unit[id].tracked = FALSE,
                !.pl[1].hasHero = IF W.unit[id].kind = "Sigurd" THEN FALSE ELSE @]

remove_unit(W, p, id) ==
  IF p = 1 THEN ComputerPlayer_remove_unit(W, id) ELSE Player_remove_unit(W, p, id)

\* Unit.die and its overrides in Infantry, Building, ComandCenter, SupplyDepot
die(W, id) ==
  LET k == W.unit[id].kind
      p == W.unit[id].side
      W1 == remove_unit(W, p, id)
  IN [W1 EXCEPT
        !.pl[p].totalUnitsValue = IF IsInfantry(k) THEN @ - unitValue(k) ELSE @,
        !.pl[p].supportedUnitsValue = IF IsBuilding(k) THEN @ - supportedUnits(k) ELSE @,
        !.pl[p].comandCenterCount = IF IsComandCenter(k) THEN @ - 1 ELSE @,
        !.pl[p].supplyDepotCount = IF k = "SupplyDepot" THEN @ - 1 ELSE @]

----------------------------------------------------------------------------
(* Unit.act and its overrides *)

Unit_set_location(W, id, x, y) == [W EXCEPT !.unit[id].x = x, !.unit[id].y = y]

\* Unit.act without the call of die: C2 must fail under it
Unit_act_no_die(W, id) ==
  LET u == W.unit[id]
  IN IF u.health > 0
     THEN [W EXCEPT !.unit[id].personal_space =
             Rect(u.x - SpaceMargin, u.y - SpaceMargin,
                  Width(u.kind) + 2 * SpaceMargin, Height(u.kind) + 2 * SpaceMargin)]
     ELSE W

Unit_act(W, id) ==
  LET u == W.unit[id]
  IN IF u.health > 0
     THEN [W EXCEPT !.unit[id].personal_space =
             Rect(u.x - SpaceMargin, u.y - SpaceMargin,
                  Width(u.kind) + 2 * SpaceMargin, Height(u.kind) + 2 * SpaceMargin)]
     ELSE [die(W, id) EXCEPT !.log.dead = Append(@, id)]

\* one axis of Infantry.get_next_logical_location, before the clamp (1/FP pixels)
step_toward(f, spd, dest) ==
  IF f + spd > dest /\ f - spd < dest THEN dest
  ELSE IF dest > f THEN f + spd
  ELSE f - spd

\* Infantry.get_next_logical_location and the set_location of Infantry.act
Infantry_get_next_logical_location(W, id, dt) ==
  LET u == W.unit[id]
      spd == speed(u.kind) * tick_scale(dt)
      tx == clamp(step_toward(u.x * FP, spd, u.destinationX * FP),
                  0, (MapWidth - Width(u.kind)) * FP)
      ty == clamp(step_toward(u.y * FP, spd, u.destinationY * FP),
                  0, (MapHeight - Height(u.kind)) * FP)
  IN Unit_set_location(W, id, int(tx), int(ty))

\* Unit.units_in_sight filtered as OffensiveInfantry.get_next_logical_location does
first_enemy_in_sight(W, id) ==
  LET u == W.unit[id]
      hits == {i \in 1..Len(W.mapUnits) :
                 /\ colliderect(rect(W.unit[W.mapUnits[i]]), sight(u))
                 /\ W.unit[W.mapUnits[i]].side # u.side}
  IN IF hits = {} THEN None
     ELSE W.mapUnits[CHOOSE i \in hits : \A j \in hits : i <= j]

OffensiveInfantry_pursue(W, id, e) ==
  IF e # None /\ ~W.unit[id].attacking
  THEN [W EXCEPT !.unit[id].obsession = e,
                 !.unit[id].destinationX = W.unit[e].x,
                 !.unit[id].destinationY = W.unit[e].y]
  ELSE W

OffensiveInfantry_get_next_logical_location(W, id, dt) ==
  LET u == W.unit[id]
      scan == ~u.ignoreEnemies /\ (u.obsession = None \/ at_destination(u) \/ u.attackMoving)
  IN IF u.holdPosition THEN W
     ELSE IF scan
     THEN Infantry_get_next_logical_location(
            OffensiveInfantry_pursue(W, id, first_enemy_in_sight(W, id)), id, dt)
     ELSE Infantry_get_next_logical_location(W, id, dt)

\* the second half of Infantry.act: one movement step
Infantry_move(W, id, dt) ==
  [(IF IsOffensive(W.unit[id].kind)
    THEN OffensiveInfantry_get_next_logical_location(W, id, dt)
    ELSE Infantry_get_next_logical_location(W, id, dt))
   EXCEPT !.unit[id].moved = TRUE]

Infantry_act(W, id, dt) == Infantry_move(Unit_act(W, id), id, dt)

\* damage that rolls already at a difference of 1: C8 must fail under it
damage_rolls_at_one(power, def, upgrade, r) ==
  LET d == IF power - def < 2 THEN r ELSE power - def
  IN IF upgrade THEN d + UpgradeBonus ELSE d

\* the damage without its floor: C24 must fail under it
damage_unfloored(power, def, upgrade, r) ==
  IF upgrade THEN power - def + UpgradeBonus ELSE power - def

\* the damage of OffensiveInfantry.attack; r is the value of random.randint(0, 1)
damage(power, def, upgrade, r) ==
  LET d == IF power - def < 1 THEN r ELSE power - def
  IN IF upgrade THEN d + UpgradeBonus ELSE d

OffensiveInfantry_attack(W, id, obss, r) ==
  LET u == W.unit[id]
      o == W.unit[obss]
      h == o.health - damage(u.power, o.defense, W.pl[u.side].attackUpgrade, r) * FP
      entry == [attacker |-> id, target |-> obss, power |-> u.power,
                defense |-> o.defense, upgrade |-> W.pl[u.side].attackUpgrade, r |-> r,
                before |-> o.health, after |-> h,
                onMap |-> Contains(W.mapUnits, obss),
                health |-> u.health, ignoreEnemies |-> u.ignoreEnemies,
                attack_range |-> u.personal_space, personal_space |-> o.personal_space]
  IN [W EXCEPT !.unit[id].attacking = TRUE,
               !.unit[id].attackMoving = FALSE,
               !.unit[obss].health = h,
               !.unit[id].obsession = IF h < 1 * FP THEN None ELSE @,
               !.unit[id].holdPosition = IF h < 1 * FP THEN FALSE ELSE @,
               !.log.attack = Append(@, entry)]

\* OffensiveInfantry.act before super().act
OffensiveInfantry_arrive(W, id) ==
  IF at_destination(W.unit[id])
  THEN [W EXCEPT !.unit[id].ignoreEnemies = FALSE, !.unit[id].attackMoving = FALSE]
  ELSE W

\* the resolution without the test of the side: C23 must fail under it
OffensiveInfantry_resolve_any_side(W, id, r) ==
  LET u == W.unit[id]
  IN IF /\ ~u.ignoreEnemies
        /\ u.obsession # None
        /\ colliderect(u.personal_space, W.unit[u.obsession].personal_space)
        /\ u.health > 0
     THEN OffensiveInfantry_attack(
            [W EXCEPT !.unit[id].attacking = FALSE, !.unit[id].holdPosition = TRUE],
            id, u.obsession, r)
     ELSE [W EXCEPT !.unit[id].attacking = FALSE, !.unit[id].holdPosition = FALSE]

\* OffensiveInfantry.act after super().act; attack_range is the personal_space object
OffensiveInfantry_resolve(W, id, r) ==
  LET u == W.unit[id]
  IN IF /\ ~u.ignoreEnemies
        /\ u.obsession # None
        /\ W.unit[u.obsession].side # u.side
        /\ colliderect(u.personal_space, W.unit[u.obsession].personal_space)
        /\ u.health > 0
     THEN OffensiveInfantry_attack(
            [W EXCEPT !.unit[id].attacking = FALSE, !.unit[id].holdPosition = TRUE],
            id, u.obsession, r)
     ELSE [W EXCEPT !.unit[id].attacking = FALSE, !.unit[id].holdPosition = FALSE]

OffensiveInfantry_act(W, id, dt, r) ==
  OffensiveInfantry_resolve(Infantry_act(OffensiveInfantry_arrive(W, id), id, dt), id, r)

\* the regeneration without its clamp: C3 must fail under it
Hero_regen_unclamped(W, id, dt) ==
  [W EXCEPT !.unit[id].health = @ + HeroRegen * tick_scale(dt)]

\* the regeneration of BrianBoru.act and Sigurd.act
Hero_regen(W, id, dt) ==
  LET h == W.unit[id].health + HeroRegen * tick_scale(dt)
      m == maxHealth(W.unit[id].kind) * FP
  IN [W EXCEPT !.unit[id].health = IF h > m THEN m ELSE h]

Hero_act(W, id, dt, r) == Hero_regen(OffensiveInfantry_act(W, id, dt, r), id, dt)

\* Builder.act before super().act
Builder_stop(W, id) ==
  LET u == W.unit[id]
  IN IF /\ u.toBuild # None
        /\ colliderect(u.personal_space, W.unit[u.toBuild].personal_space)
        /\ u.building
     THEN [W EXCEPT !.unit[id].destinationX = u.x, !.unit[id].destinationY = u.y]
     ELSE W

\* Builder.act after super().act
Builder_work(W, id, dt) ==
  LET v == W.unit[id]
      bt == W.unit[v.toBuild].buildTime - tick_scale(dt)
  IN IF at_destination(v) /\ v.building /\ v.toBuild # None
     THEN [W EXCEPT !.unit[v.toBuild].buildTime = bt,
                    !.unit[id].building = IF bt > 0 THEN @ ELSE FALSE]
     ELSE W

Builder_act(W, id, dt) == Builder_work(Infantry_act(Builder_stop(W, id), id, dt), id, dt)

----------------------------------------------------------------------------
(* Building.act *)

\* Building.init_after_build
init_after_build(W, id) ==
  IF W.unit[id].didInitializeAfterBuild THEN W
  ELSE [W EXCEPT !.unit[id].didInitializeAfterBuild = TRUE,
                 !.pl[W.unit[id].side].supportedUnitsValue = @ + supportedUnits(W.unit[id].kind)]

\* Building.act after add_unit(temp_unit): the new unit is put next to the building;
\* an object the player refused is dropped
Building_spawn(W, id, nid, q, ts) ==
  LET b == W.unit[id]
      nx == b.x + Width(b.kind)
      ny == b.y + Height(b.kind)
      entry == [building |-> id, before |-> q, after |-> b.queue, ts |-> ts,
                produced |-> TRUE, ok |-> W.ret, kind |-> W.unit[nid].kind]
  IN IF W.ret
     THEN [W EXCEPT !.unit[nid].destinationX = IF IsInfantry(W.unit[nid].kind) THEN nx ELSE @,
                    !.unit[nid].destinationY = IF IsInfantry(W.unit[nid].kind) THEN ny ELSE @,
                    !.unit[nid].x = nx,
                    !.unit[nid].y = ny,
                    !.log.produce = Append(@, entry)]
     ELSE [W EXCEPT !.unit = SubSeq(@, 1, nid - 1),
                    !.log.produce = Append(@, entry)]

\* ProductionQueue.next and ProductionQueue.dequeue on a queue that holds an order
ProductionQueue_next(q) == Head(q)

\* dequeue that takes the newest order: C5 must fail under it
ProductionQueue_dequeue_newest(q) == SubSeq(q, 1, Len(q) - 1)

ProductionQueue_dequeue(q) == Tail(q)

\* the production part of Building.act: the front order of the queue
produce(W, id, dt) ==
  LET b == W.unit[id]
      q == b.queue
      bt == ProductionQueue_next(q).buildTime - tick_scale(dt)
      nid == Len(W.unit) + 1
      new == [Unit(ProductionQueue_next(q).kind, b.side) EXCEPT !.buildTime = bt]
      waiting == [q EXCEPT ![1].buildTime = bt]
      entry == [building |-> id, before |-> q, after |-> waiting, ts |-> tick_scale(dt),
                produced |-> FALSE, ok |-> FALSE, kind |-> ProductionQueue_next(q).kind]
  IN IF q = <<>> THEN W
     ELSE IF bt > 0
     THEN [W EXCEPT !.unit[id].queue = waiting, !.log.produce = Append(@, entry)]
     ELSE Building_spawn(
            add_unit([W EXCEPT !.unit = Append([@ EXCEPT ![id].queue = ProductionQueue_dequeue(q)], new)],
                     b.side, nid),
            id, nid, q, tick_scale(dt))

\* self.master.master.resources += self.resourceIncrease * tick_scale(dt)
Building_accrue(W, id, dt) ==
  [W EXCEPT !.pl[W.unit[id].side].resources =
              @ + resourceIncrease(W.unit[id].kind) * tick_scale(dt),
            !.log.accrue =
              Append(@, [id |-> id, side |-> W.unit[id].side,
                         amount |-> resourceIncrease(W.unit[id].kind) * tick_scale(dt)])]

\* Building.act after super().act
Building_work(W, id, dt) ==
  IF is_being_built(W.unit[id]) THEN W
  ELSE produce(Building_accrue(init_after_build(W, id), id, dt), id, dt)

Building_act(W, id, dt) == Building_work(Unit_act(W, id), id, dt)

\* u.act(dt), by the class of u
act(W, id, dt, r) ==
  LET k == W.unit[id].kind
  IN CASE IsBuilding(k) -> Building_act(W, id, dt)
       [] k = "Builder" -> Builder_act(W, id, dt)
       [] IsHero(k) -> Hero_act(W, id, dt, r)
       [] OTHER -> OffensiveInfantry_act(W, id, dt, r)

\* for u in list(self.map.units): u.act(dt)
RECURSIVE act_pass(_, _, _, _)
act_pass(W, snapshot, dt, r) ==
  IF snapshot = <<>> THEN W
  ELSE act_pass([act(W, Head(snapshot), dt, r) EXCEPT !.log.act = Append(@, Head(snapshot))],
                Tail(snapshot), dt, r)

----------------------------------------------------------------------------
(* Tech actions and the controller's buttons *)

\* Unit.tech_actions[i] by class: the name of the action, "" for None
tech_actions(k, i) ==
  CASE i = 0 /\ IsInfantry(k) -> "SetDestination"
    [] i = 1 /\ IsOffensive(k) -> "SetOffensiveDestination"
    [] i = 1 /\ k = "Builder" -> "MakeComandCenter"
    [] i = 2 /\ k = "Builder" -> "MakeBarracks"
    [] i = 3 /\ k = "Builder" -> "MakeStables"
    [] i = 4 /\ k = "Builder" -> "MakeSupplyDepot"
    [] i = 2 /\ k = "Horseman" -> "DropSpearman"
    [] i = 0 /\ k = "Barracks" -> "MakeSwordsman"
    [] i = 1 /\ k = "Barracks" -> "MakeSpearman"
    [] i = 0 /\ k = "Stables" -> "MakeHorseman"
    [] i = 0 /\ IsComandCenter(k) -> "MakeBuilder"
    [] i = 1 /\ IsComandCenter(k) -> "MakeHero"
    [] i = 0 /\ k = "SupplyDepot" -> "UpgradeToClaymore"
    [] i = 8 /\ IsBuilding(k) -> "Dequeue"
    [] OTHER -> ""

native_cls(a) ==
  CASE a \in {"SetDestination", "SetOffensiveDestination"} -> "Infantry"
    [] a \in {"MakeSwordsman", "MakeSpearman"} -> "Barracks"
    [] a = "MakeHorseman" -> "Stables"
    [] a \in {"MakeBuilder", "MakeHero"} -> "ComandCenter"
    [] OTHER -> "object"

\* Controller.get_lowest_common_class of a set of kinds
get_lowest_common_class(ks) ==
  IF ks \subseteq InfantryKinds
  THEN IF ks \subseteq OffensiveKinds
       THEN CASE ks \subseteq {"Spearman"} -> "Spearman"
              [] ks \subseteq {"BrianBoru"} -> "BrianBoru"
              [] ks \subseteq {"Sigurd"} -> "Sigurd"
              [] ks \subseteq {"Swordsman"} -> "Swordsman"
              [] ks \subseteq {"Horseman"} -> "Horseman"
              [] OTHER -> "Infantry"
       ELSE IF ks \subseteq {"Builder"} THEN "Builder" ELSE "Infantry"
  ELSE "Unit"

issubclass(cls, native) ==
  \/ native = "object"
  \/ native = "Infantry" /\ cls # "Unit"
  \/ native = cls

\* Controller.set_selected_units: the actions of button bb[i], as <<unit, action>>
RECURSIVE button_filter(_, _, _, _)
button_filter(W, sel, i, cls) ==
  IF sel = <<>> THEN <<>>
  ELSE LET a == tech_actions(W.unit[Head(sel)].kind, i)
       IN (IF a # "" /\ issubclass(cls, native_cls(a)) THEN << <<Head(sel), a>> >> ELSE <<>>)
          \o button_filter(W, Tail(sel), i, cls)

button_actions(W, p, i) ==
  LET sel == selected_units(W, p)
      ks == {W.unit[sel[j]].kind : j \in 1..Len(sel)}
  IN IF Len(sel) = 0 THEN <<>>
     ELSE IF Len(sel) = 1
     THEN (IF tech_actions(W.unit[sel[1]].kind, i) # ""
           THEN << <<sel[1], tech_actions(W.unit[sel[1]].kind, i)>> >> ELSE <<>>)
     ELSE button_filter(W, sel, i, get_lowest_common_class(ks))

\* enqueue that accepts a sixth order: C4 must fail under it
ProductionQueue_enqueue_sixth(q, obj) ==
  IF Len(q) <= QueueCapacity THEN Append(q, obj) ELSE q

ProductionQueue_enqueue(q, obj) ==
  IF Len(q) < QueueCapacity THEN Append(q, obj) ELSE q

\* Make*Action.tech_act of a building: a new unit of kind k is offered to the queue
MakeUnit_tech_act(W, id, k) ==
  LET q == W.unit[id].queue
      obj == [kind |-> k, buildTime |-> build_time(k) * FP]
      entry == [building |-> id, obj |-> obj, before |-> q,
                after |-> ProductionQueue_enqueue(q, obj),
                ret |-> Len(q) < QueueCapacity]
  IN [W EXCEPT !.unit[id].queue = ProductionQueue_enqueue(q, obj),
               !.log.enqueue = Append(@, entry)]

DequeueAction_tech_act(W, id) ==
  LET q == W.unit[id].queue
  IN IF q # <<>> THEN [W EXCEPT !.unit[id].queue = SubSeq(q, 1, Len(q) - 1)] ELSE W

\* Make<Building>.tech_act followed by MakeBuilding.tech_act
MakeBuilding_tech_act(W, id, k) ==
  LET u == W.unit[id]
      nid == Len(W.unit) + 1
      W1 == [W EXCEPT !.unit = Append(@, Unit(k, u.side))]
  IN [W1 EXCEPT !.unit[id].toBuild = nid,
                !.unit[id].selectingToBuild = ~u.selectingToBuild,
                !.pl[u.side].builder_mode = IF ~u.selectingToBuild THEN id ELSE None]

SetDestinationAction_tech_act(W, id) ==
  [W EXCEPT !.unit[id].setDestinationEnabled = TRUE,
            !.unit[id].ignoreEnemies = IF IsOffensive(W.unit[id].kind) THEN TRUE ELSE @]

SetOffensiveDestinationAction_tech_act(W, id) ==
  [SetDestinationAction_tech_act(W, id) EXCEPT !.unit[id].ignoreEnemies = FALSE,
                                               !.unit[id].attackMoving = TRUE]

DropSpearmanAction_tech_act(W, id) ==
  LET h == W.unit[id]
      nid == Len(W.unit) + 1
      sm == [Unit("Spearman", h.side) EXCEPT !.x = h.x, !.y = h.y,
               !.destinationX = h.destinationX, !.destinationY = h.destinationY]
  IN IF h.hasSpearman
     THEN [W EXCEPT !.unit = Append([@ EXCEPT ![id].hasSpearman = FALSE,
                                              ![id].power = h.power \div 2], sm),
                    !.pl[h.side].units = Append(@, nid),
                    !.mapUnits = Append(@, nid)]
     ELSE W

UpgradeToClaymoreAction_tech_act(W, id) ==
  LET p == W.unit[id].side
  IN IF ~W.pl[p].attackUpgrade /\ W.pl[p].resources > UpgradeCost * RES
     THEN [W EXCEPT !.pl[p].resources = @ - UpgradeCost * RES,
                    !.pl[p].attackUpgrade = TRUE]
     ELSE W

tech_act(W, id, a) ==
  CASE a = "SetDestination" -> SetDestinationAction_tech_act(W, id)
    [] a = "SetOffensiveDestination" -> SetOffensiveDestinationAction_tech_act(W, id)
    [] a = "MakeComandCenter" -> MakeBuilding_tech_act(W, id, "ComandCenter")
    [] a = "MakeBarracks" -> MakeBuilding_tech_act(W, id, "Barracks")
    [] a = "MakeStables" -> MakeBuilding_tech_act(W, id, "Stables")
    [] a = "MakeSupplyDepot" -> MakeBuilding_tech_act(W, id, "SupplyDepot")
    [] a = "DropSpearman" -> DropSpearmanAction_tech_act(W, id)
    [] a = "MakeSwordsman" -> MakeUnit_tech_act(W, id, "Swordsman")
    [] a = "MakeSpearman" -> MakeUnit_tech_act(W, id, "Spearman")
    [] a = "MakeHorseman" -> MakeUnit_tech_act(W, id, "Horseman")
    [] a = "MakeBuilder" -> MakeUnit_tech_act(W, id, "Builder")
    [] a = "MakeHero" ->
         MakeUnit_tech_act(W, id, IF W.unit[id].side = 0 THEN "BrianBoru" ELSE "Sigurd")
    [] a = "UpgradeToClaymore" -> UpgradeToClaymoreAction_tech_act(W, id)
    [] a = "Dequeue" -> DequeueAction_tech_act(W, id)

\* BufferButton.do_click: every action of the button, in order
RECURSIVE do_click(_, _)
do_click(W, actions) ==
  IF actions = <<>> THEN W
  ELSE do_click(tech_act(W, Head(actions)[1], Head(actions)[2]), Tail(actions))

\* Controller.click_buffer_button(i)
click_buffer_button(W, p, i) == do_click(W, button_actions(W, p, i))

----------------------------------------------------------------------------
(* ComputerPlayer *)

\* Unit.select without the override of Building: C13 must fail under it
select_unguarded(W, id) == [W EXCEPT !.unit[id].selected = TRUE]

\* u.select(): Unit.select, and Building.select for a building
select(W, id) ==
  IF IsBuilding(W.unit[id].kind) /\ is_being_built(W.unit[id]) THEN W
  ELSE [W EXCEPT !.unit[id].selected = TRUE]

\* deselect that flips the flag: C14 must fail under it
deselect_toggle(W, id) == [W EXCEPT !.unit[id].selected = ~@]

deselect(W, id) == [W EXCEPT !.unit[id].selected = FALSE]

set_destination(W, id, x, y) ==
  [W EXCEPT !.unit[id].destinationX = x, !.unit[id].destinationY = y]

\* the class lists of ComputerPlayer: comandcenter, barracks, builders, ...
ai_list(W, ks) ==
  SelectSeq(W.pl[1].units, LAMBDA id : W.unit[id].tracked /\ W.unit[id].kind \in ks)

get_resources_in(W, t) ==
  (Len(ai_list(W, {"SupplyDepot"})) * resourceIncrease("SupplyDepot") * t
   + Len(ai_list(W, {"ComandCenter"})) * resourceIncrease("ComandCenter") * t) \div 1000

Builder_ai_build_building_at(W, id, x, y) ==
  LET u == W.unit[id]
      tb == u.toBuild
      r == Rect(x, y, Width(W.unit[tb].kind), Height(W.unit[tb].kind))
  IN IF tb = None THEN [W EXCEPT !.ret = FALSE]
     ELSE IF ~Map_is_colliding_with_unit(W, r)
     THEN [add_unit(Unit_set_location(W, tb, x, y), u.side, tb)
             EXCEPT !.unit[id].building = TRUE,
                    !.unit[id].destinationX = x,
                    !.unit[id].destinationY = y,
                    !.unit[id].selectingToBuild = FALSE,
                    !.unit[id].selected = TRUE,
                    !.ret = TRUE]
     ELSE [W EXCEPT !.ret = FALSE]

\* the nine candidate places around building u, in the order of the two loops
candidate(u, n) ==
  LET i == ((n - 1) \div 3) - 1
      j == ((n - 1) % 3) - 1
      w == Width(u.kind)
      h == Height(u.kind)
  IN <<u.x + w \div 2 + (w \div 2) * i + w * 3 * i,
       u.y + h \div 2 + (h \div 2) * j + h * 3 * j>>

\* logs that the scan of builder begins, with the world it begins in
scan_started(W, builder) ==
  [W EXCEPT !.log.scan = Append(@, [builder |-> builder, tb |-> W.unit[builder].toBuild,
                                    placed |-> FALSE, unit |-> W.unit,
                                    mapUnits |-> W.mapUnits, own |-> W.pl[1].units])]

\* logs that the scan begun last has returned from a placement
scan_placed(W) == [W EXCEPT !.log.scan[Len(W.log.scan)].placed = TRUE]

\* ComputerPlayer.build_at_logical_location from the n-th place of the k-th unit on
RECURSIVE build_at_logical_location(_, _, _, _)

\* after builder.ai_build_building_at: return when it succeeded
build_placed(W, builder, k, n) ==
  IF W.ret THEN scan_placed(W)
  ELSE build_at_logical_location(W, builder, k, n + 1)

\* after tb.set_location: the place is taken when free and in bounds
build_try(W, builder, k, n) ==
  LET tb == W.unit[W.unit[builder].toBuild]
  IN IF ~Map_is_colliding_with_unit(W, rect(tb)) /\ Map_unit_in_bounds(rect(tb))
     THEN build_placed(Builder_ai_build_building_at(W, builder, tb.x, tb.y), builder, k, n)
     ELSE build_at_logical_location(W, builder, k, n + 1)

build_at_logical_location(W, builder, k, n) ==
  LET us == W.pl[1].units
      u == W.unit[us[k]]
      tb == W.unit[builder].toBuild
      c == candidate(u, n)
  IN IF k > Len(us) THEN W
     ELSE IF ~IsBuilding(u.kind) \/ tb = None \/ n > 9
     THEN build_at_logical_location(W, builder, k + 1, 1)
     ELSE build_try(Unit_set_location(W, tb, c[1], c[2]), builder, k, n)

\* the bodies of the loops of update_ai, on the world where temp is selected
ai_comandcenter(W, id) ==
  LET P == W.pl[1]
      idle == W.unit[id].queue = <<>>
  IN IF Len(ai_list(W, {"Builder"})) < 4
     THEN (IF idle THEN click_buffer_button(W, 1, 0) ELSE W)
     ELSE IF /\ P.resources + get_resources_in(W, build_time("Sigurd")) * RES
                  > cost("Sigurd") * RES
             /\ ~P.hasHero
             /\ idle
          THEN click_buffer_button(W, 1, 1)
          ELSE W

ai_barracks_random(W, id, rand, rnd) ==
  IF rand # 0 /\ W.unit[id].queue = <<>>
  THEN click_buffer_button(W, 1, IF rnd.button < rand THEN rnd.button ELSE 0)
  ELSE W

ai_barracks(W, id, rnd) ==
  LET P == W.pl[1]
      a == P.resources > cost("Swordsman") * RES
           /\ (Len(ai_list(W, {"Swordsman"})) < 10 \/ P.hasHero)
      b == P.resources > cost("Spearman") * RES
           /\ (Len(ai_list(W, {"Spearman"})) < 10 \/ P.hasHero)
      rand == (IF a THEN 1 ELSE 0) + (IF b THEN 1 ELSE 0)
  IN ai_barracks_random(
       IF b /\ W.unit[id].queue = <<>> THEN click_buffer_button(W, 1, 1) ELSE W,
       id, rand, rnd)

ai_stables(W, id) ==
  LET P == W.pl[1]
  IN IF /\ P.resources + get_resources_in(W, build_time("Sigurd")) * RES
             > cost("Horseman") * RES
        /\ (Len(ai_list(W, {"Horseman"})) < 4 \/ P.hasHero)
        /\ W.unit[id].queue = <<>>
     THEN click_buffer_button(W, 1, 0)
     ELSE W

ai_supplyDepot(W, id) ==
  IF W.pl[1].resources > 200 * RES /\ W.unit[id].queue = <<>>
  THEN UpgradeToClaymoreAction_tech_act(W, id)
  ELSE W

ai_patrol(W, id, rnd) ==
  IF at_destination(W.unit[id]) THEN set_destination(W, id, rnd.px, rnd.py) ELSE W

ai_builder(W, id) ==
  LET P == W.pl[1]
      nBarracks == Len(ai_list(W, {"Barracks"}))
      nStables == Len(ai_list(W, {"Stables"}))
      button ==
        IF \/ Len(ai_list(W, {"ComandCenter"})) < 1
           \/ /\ P.resources > 1000 * RES
              /\ comandCeneterLimit > P.comandCenterCount
              /\ nBarracks > 1 /\ nStables > 1
        THEN 1
        ELSE IF /\ (Len(ai_list(W, {"SupplyDepot"})) < (nBarracks + 1) * 8 \/ nStables > 2)
                /\ P.resources > cost("SupplyDepot") * RES
                /\ supplyDepotLimit > P.supplyDepotCount
        THEN 4
        ELSE IF P.resources > cost("Barracks") * RES /\ nBarracks < 4 THEN 2
        ELSE IF P.resources > cost("Stables") * RES THEN 3
        ELSE None
  IN IF ~W.unit[id].building /\ button # None
     THEN build_at_logical_location(scan_started(click_buffer_button(W, 1, button), id),
                                    id, 1, 1)
     ELSE W

ai_drop(W, id) ==
  IF 4 * W.unit[id].health < maxHealth("Horseman") * FP
  THEN DropSpearmanAction_tech_act(W, id)
  ELSE W

ai_horseman(W, id, rnd) == ai_drop(ai_patrol(W, id, rnd), id)

\* temp.select(); self.update_selected_units()
ai_select(W, id) == update_selected_units(select(W, id), 1)

\* the body of the loop named what, for temp = id
ai_body(W, id, what, rnd) ==
  CASE what = "comandcenter" -> deselect(ai_comandcenter(ai_select(W, id), id), id)
    [] what = "barracks" -> deselect(ai_barracks(ai_select(W, id), id, rnd), id)
    [] what = "stables" -> deselect(ai_stables(ai_select(W, id), id), id)
    [] what = "supplyDepots" -> deselect(ai_supplyDepot(ai_select(W, id), id), id)
    [] what = "patrol" -> ai_patrol(W, id, rnd)
    [] what = "builders" -> deselect(ai_builder(ai_select(W, id), id), id)
    [] what = "horsemen" -> ai_horseman(W, id, rnd)

\* for temp in list(lst): body
RECURSIVE ai_each(_, _, _, _)
ai_each(W, lst, what, rnd) ==
  IF lst = <<>> THEN W
  ELSE ai_each(ai_body(W, Head(lst), what, rnd), Tail(lst), what, rnd)

\* one loop of update_ai over the class list of the kinds ks
ai_loop(W, ks, what, rnd) == ai_each(W, ai_list(W, ks), what, rnd)

\* ComputerPlayer.update_ai; dt in ms, rnd the values random.randint returns
ai_poll(W, rnd) ==
       ai_loop(ai_loop(ai_loop(ai_loop(ai_loop(ai_loop(ai_loop(ai_loop(ai_loop(
         W,
         {"ComandCenter"}, "comandcenter", rnd),
         {"Barracks"}, "barracks", rnd),
         {"Stables"}, "stables", rnd),
         {"SupplyDepot"}, "supplyDepots", rnd),
         {"Swordsman"}, "patrol", rnd),
         {"Sigurd"}, "patrol", rnd),
         {"Spearman"}, "patrol", rnd),
         {"Builder"}, "builders", rnd),
         {"Horseman"}, "horsemen", rnd)

\* update_ai that polls at every call: C25 must fail under it
update_ai_every_call(W, dt, rnd) == ai_poll([W EXCEPT !.game.ai_timer = 0], rnd)

\* ComputerPlayer.update_ai(dt): the timer, and the poll when it is due
update_ai(W, dt, rnd) ==
  IF W.game.ai_timer + dt < DIFFICULTY
  THEN [W EXCEPT !.game.ai_timer = @ + dt]
  ELSE ai_poll([W EXCEPT !.game.ai_timer = 0], rnd)

\* logs what the call of update_ai that led from W to U has left as it was
ai_logged(W, U) ==
  [U EXCEPT !.log.ai = [same |-> /\ U.unit = W.unit /\ U.pl = W.pl
                                 /\ U.mapUnits = W.mapUnits
                                 /\ [U.game EXCEPT !.ai_timer = 0] =
                                      [W.game EXCEPT !.ai_timer = 0],
                        orders |-> Len(U.log.enqueue) + Len(U.log.scan) + Len(U.log.add)]]

----------------------------------------------------------------------------
(* HumanPlayer: a click on the map area, at world coordinates (wx, wy) *)

\* Infantry.click, before it hands over to Unit.click
Infantry_click(W, id, wx, wy) ==
  LET u == W.unit[id]
  IN IF u.setDestinationEnabled
     THEN [W EXCEPT !.unit[id].holdPosition = FALSE,
                    !.unit[id].reselect = TRUE,
                    !.unit[id].destinationX = wx - Width(u.kind) \div 2,
                    !.unit[id].destinationY = wy - Height(u.kind) \div 2,
                    !.unit[id].setDestinationEnabled = FALSE]
     ELSE W

Infantry_do_right_click(W, id, wx, wy) ==
  [W EXCEPT !.unit[id].reselect = TRUE,
            !.unit[id].destinationX = wx - Width(W.unit[id].kind) \div 2,
            !.unit[id].destinationY = wy - Height(W.unit[id].kind) \div 2]

OffensiveInfantry_do_right_click(W, id, wx, wy) ==
  LET temp == Map_get_unit_at_point(W, wx, wy)
      W1 == [W EXCEPT !.unit[id].obsession = IF temp # None THEN temp ELSE @,
                      !.unit[id].attacking = IF temp # None THEN FALSE ELSE @,
                      !.unit[id].attackMoving = TRUE,
                      !.unit[id].holdPosition = FALSE]
  IN Infantry_do_right_click(W1, id, wx, wy)

do_right_click(W, id, wx, wy) ==
  CASE IsOffensive(W.unit[id].kind) -> OffensiveInfantry_do_right_click(W, id, wx, wy)
    [] W.unit[id].kind = "Builder" -> Infantry_do_right_click(W, id, wx, wy)
    [] OTHER -> W

\* Building.do_click on a building under construction: the selected builders take it over
RECURSIVE assign_builders(_, _, _)
assign_builders(W, sel, b) ==
  IF sel = <<>> THEN W
  ELSE LET W1 == IF W.unit[Head(sel)].kind = "Builder"
                 THEN [W EXCEPT !.unit[Head(sel)].toBuild = b,
                                !.unit[Head(sel)].building = TRUE,
                                !.unit[Head(sel)].destinationX = W.unit[b].x,
                                !.unit[Head(sel)].destinationY = W.unit[b].y]
                 ELSE W
       IN assign_builders(W1, Tail(sel), b)

Building_do_click(W, id, sel) ==
  IF ~is_being_built(W.unit[id]) THEN select(W, id) ELSE assign_builders(W, sel, id)

unit_do_click(W, id, sel) ==
  IF IsBuilding(W.unit[id].kind) THEN Building_do_click(W, id, sel) ELSE select(W, id)

\* u.click(button, pos); hit is the object the call returned
Unit_click(W, id, button, wx, wy, sel) ==
  LET W1 == IF IsInfantry(W.unit[id].kind) THEN Infantry_click(W, id, wx, wy) ELSE W
      u == W1.unit[id]
  IN IF button = 3 /\ u.selected
     THEN [do_right_click(W1, id, wx, wy) EXCEPT !.hit = None]
     ELSE IF collidepoint(rect(u), wx, wy)
     THEN [unit_do_click(W1, id, sel) EXCEPT !.hit = id]
     ELSE [W1 EXCEPT !.hit = None]

\* for u in self.units: clicked_obj = u.click(button, pos); stop at the first hit
RECURSIVE click_units(_, _, _, _, _, _)

click_rest(W, us, button, wx, wy, sel) ==
  IF W.hit # None THEN W ELSE click_units(W, us, button, wx, wy, sel)

click_units(W, us, button, wx, wy, sel) ==
  IF us = <<>> THEN W
  ELSE click_rest(Unit_click(W, Head(us), button, wx, wy, sel),
                  Tail(us), button, wx, wy, sel)

RECURSIVE deselect_list(_, _)
deselect_list(W, sel) ==
  IF sel = <<>> THEN W ELSE deselect_list(deselect(W, Head(sel)), Tail(sel))

RECURSIVE reselect_if_needed(_, _)
reselect_if_needed(W, sel) ==
  IF sel = <<>> THEN W
  ELSE reselect_if_needed(
         IF IsInfantry(W.unit[Head(sel)].kind) /\ W.unit[Head(sel)].reselect
         THEN [W EXCEPT !.unit[Head(sel)].selected = TRUE,
                        !.unit[Head(sel)].reselect = FALSE]
         ELSE W,
         Tail(sel))

Builder_build_building_at(W, id, x, y) ==
  LET u == W.unit[id]
      tb == u.toBuild
      w == Width(W.unit[tb].kind)
      h == Height(W.unit[tb].kind)
  IN IF tb = None THEN [W EXCEPT !.ret = FALSE]
     ELSE IF ~Map_is_colliding_with_unit(W, Rect(x, y, w, h))
     THEN [add_unit(Unit_set_location(W, tb, x - w \div 2, y - h \div 2), u.side, tb)
             EXCEPT !.unit[id].building = TRUE,
                    !.unit[id].destinationX = x - w \div 2,
                    !.unit[id].destinationY = y - h \div 2,
                    !.unit[id].selectingToBuild = FALSE,
                    !.unit[id].selected = TRUE,
                    !.ret = TRUE]
     ELSE [W EXCEPT !.ret = FALSE]

\* HumanPlayer.click after the loop: the old selection is dropped
click_selection(W, sel) ==
  IF W.hit = None \/ ~Contains(sel, W.hit)
  THEN reselect_if_needed(deselect_list(W, sel), sel)
  ELSE deselect_list(W, sel)

click_placed(W) ==
  IF W.ret THEN [W EXCEPT !.pl[0].builder_mode = None] ELSE W

\* HumanPlayer.click: the placement of build mode
click_build(W, wx, wy) ==
  IF W.pl[0].builder_mode = None THEN W
  ELSE click_placed(Builder_build_building_at(W, W.pl[0].builder_mode, wx, wy))

\* logs the click: the unit that took it and the selection it met
click_logged(W, button, wx, wy, sel) ==
  [W EXCEPT !.log.click = Append(@, [hit |-> W.hit, button |-> button, sel |-> sel,
                                     wx |-> wx, wy |-> wy])]

click_map(W, button, wx, wy, sel) ==
  click_logged(
    update_selected_units(
      click_build(
        click_selection(
          click_units([W EXCEPT !.hit = None], W.pl[0].units, button, wx, wy, sel),
          sel),
        wx, wy),
      0),
    button, wx, wy, sel)

HumanPlayer_click(W, button, wx, wy) == click_map(W, button, wx, wy, selected_units(W, 0))

\* HumanPlayer.mouse_released_select_box with the box r in world coordinates
box_units(W, r) ==
  SelectSeq(W.pl[0].units, LAMBDA id : colliderect(rect(W.unit[id]), r))

box_select(W, r) ==
  [W EXCEPT !.unit = [i \in 1..Len(W.unit) |->
     IF Contains(box_units(W, r), i) /\ ~IsBuilding(W.unit[i].kind)
     THEN [W.unit[i] EXCEPT !.selected = TRUE] ELSE W.unit[i]]]

\* the one building of the box is selected when the box selected nothing else
box_building(W, temp_buildings) ==
  IF Len(selected_units(W, 0)) = 0 /\ Len(temp_buildings) = 1
  THEN update_selected_units(select(W, temp_buildings[1]), 0)
  ELSE W

mouse_released_select_box(W, r) ==
  box_building(
    update_selected_units(box_select(W, r), 0),
    SelectSeq(box_units(W, r), LAMBDA id : IsBuilding(W.unit[id].kind)))

\* Player.deselect_all
deselect_all(W, p) == deselect_list(W, W.pl[p].units)

\* logs a call of deselect_all: the units before and after it
deselect_all_logged(W, p) ==
  [deselect_all(W, p) EXCEPT !.log.deselected =
     Append(@, [side |-> p, before |-> W.unit, after |-> deselect_all(W, p).unit])]

\* UnitSelectionAction.tech_act of unit id
UnitSelectionAction_tech_act(W, id) ==
  update_selected_units(select(deselect_all_logged(W, W.unit[id].side), id), W.unit[id].side)

\* a click on unitButtons[i]: the buttons show when two or more units are selected
click_unit_button(W, p, i) ==
  LET sel == selected_units(W, p)
  IN IF Len(sel) >= 2 /\ i < Len(sel) THEN UnitSelectionAction_tech_act(W, sel[i + 1]) ELSE W

----------------------------------------------------------------------------
(* HumanPlayer: the drag of the left button, at screen coordinates. drag   *)
(* holds the drag fields of HumanPlayer, Map.x and Map.y, and left_down of  *)
(* main; selecting_rect is <<>> for None and <<r>> for the rectangle r.     *)

Abs(n) == IF n < 0 THEN -n ELSE n
Lesser(a, b) == IF a < b THEN a ELSE b

hud_top == ScreenH - ScreenH \div 4

\* Minimap.update_rect
Minimap_rect == Rect(3, ScreenH - ScreenH \div 4 + 3, ScreenW \div 5 - 3, ScreenH \div 5 - 3)

\* Map.set_location with Map._clamp_to_bounds, on the fields of drag
Map_set_location(d, x_world, y_world) ==
  LET y1 == IF -y_world > 0 THEN 0 ELSE -y_world
      y2 == IF y1 + MapHeight < ScreenH THEN ScreenH - MapHeight ELSE y1
      x1 == IF -x_world + MapWidth < ScreenW THEN ScreenW - MapWidth ELSE -x_world
      x2 == IF x1 > 0 THEN 0 ELSE x1
  IN [d EXCEPT !.mapX = x2, !.mapY = y2]

\* Minimap.click and Minimap.dragged: the view goes where the minimap is touched
Minimap_click(d, x, y) ==
  IF collidepoint(Minimap_rect, x, y)
  THEN Map_set_location(d, ((x - Minimap_rect.x) * MapWidth) \div Minimap_rect.w,
                           ((y - Minimap_rect.y) * MapHeight) \div Minimap_rect.h)
  ELSE d

\* InitialDrag: HumanPlayer.__init__, and HumanPlayer.init for the view
InitialDrag ==
  Map_set_location(
    [dragAnchorX |-> 200, dragAnchorY |-> 200, dragCurX |-> 200, dragCurY |-> 200,
     dragStartedOnMinimap |-> FALSE, dragAllowed |-> TRUE, selecting_rect |-> <<>>,
     left_down |-> FALSE, mapX |-> 0, mapY |-> 0],
    500, 0)

\* MOUSEBUTTONDOWN of button 1: HumanPlayer.begin_drag
HumanPlayer_begin_drag(W, x, y) ==
  [W EXCEPT !.game.drag =
     [@ EXCEPT !.left_down = TRUE,
               !.dragAnchorX = x, !.dragAnchorY = y, !.dragCurX = x, !.dragCurY = y,
               !.dragAllowed = (y < hud_top),
               !.dragStartedOnMinimap = collidepoint(Minimap_rect, x, y),
               !.selecting_rect = <<>>]]

\* the rectangle of a drag wherever it began: C21 must fail under it
update_selection_rect_anywhere(d) ==
  LET dx == Abs(d.dragCurX - d.dragAnchorX)
      dy == Abs(d.dragCurY - d.dragAnchorY)
  IN IF dx >= DRAG_THRESH \/ dy >= DRAG_THRESH
     THEN [d EXCEPT !.selecting_rect =
             <<Rect(Lesser(d.dragAnchorX, d.dragCurX), Lesser(d.dragAnchorY, d.dragCurY), dx, dy)>>]
     ELSE [d EXCEPT !.selecting_rect = <<>>]

\* HumanPlayer._update_selection_rect
update_selection_rect(d) ==
  LET dx == Abs(d.dragCurX - d.dragAnchorX)
      dy == Abs(d.dragCurY - d.dragAnchorY)
  IN IF ~d.dragAllowed \/ d.dragStartedOnMinimap
     THEN [d EXCEPT !.selecting_rect = <<>>]
     ELSE IF dx >= DRAG_THRESH \/ dy >= DRAG_THRESH
     THEN [d EXCEPT !.selecting_rect =
             <<Rect(Lesser(d.dragAnchorX, d.dragCurX), Lesser(d.dragAnchorY, d.dragCurY), dx, dy)>>]
     ELSE [d EXCEPT !.selecting_rect = <<>>]

\* MOUSEMOTION: HumanPlayer.update_drag while the left button is down
HumanPlayer_update_drag(W, x, y) ==
  IF W.game.drag.left_down
  THEN [W EXCEPT !.game.drag =
          update_selection_rect(
            Minimap_click([@ EXCEPT !.dragCurX = x, !.dragCurY = y], x, y))]
  ELSE W

\* MOUSEBUTTONUP of button 1 at the place of the cursor, above the HUD strip:
\* Game.handle_release_drag_select while a rectangle is active, else
\* Game.handle_click(1, pos)
mouse_button_up(W) ==
  LET d == W.game.drag
      r == d.selecting_rect[1]
  IN IF d.selecting_rect # <<>>
     THEN [mouse_released_select_box(W, Rect(r.x - d.mapX, r.y - d.mapY, r.w, r.h))
             EXCEPT !.game.drag.selecting_rect = <<>>,
                    !.game.drag.left_down = FALSE,
                    !.log.box = Append(@, Rect(r.x - d.mapX, r.y - d.mapY, r.w, r.h))]
     ELSE [HumanPlayer_click(W, 1, d.dragCurX - d.mapX, d.dragCurY - d.mapY)
             EXCEPT !.game.drag = [Minimap_click(d, d.dragCurX, d.dragCurY)
                                     EXCEPT !.left_down = FALSE]]

----------------------------------------------------------------------------
(* Game *)

EmptyLog == [add |-> <<>>, attack |-> <<>>, produce |-> <<>>, enqueue |-> <<>>,
             dead |-> <<>>, click |-> <<>>, deselected |-> <<>>, accrue |-> <<>>,
             ts |-> 0, scan |-> <<>>, act |-> <<>>, box |-> <<>>,
             ai |-> [same |-> TRUE, orders |-> 0]]

World == [unit |-> unit, pl |-> pl, mapUnits |-> mapUnits, game |-> game,
          log |-> EmptyLog, ret |-> FALSE, hit |-> None]

\* Game.__init__: the computer player and its command center, then the human and Tara
Game_init ==
  LET cc == [Unit("ComandCenter", 1) EXCEPT !.buildTime = 0, !.x = 2500, !.y = 2500]
      tara == [Unit("Tara", 0) EXCEPT !.buildTime = 0, !.x = 770, !.y = 100]
      W0 == [unit |-> <<cc, tara>>,
             pl |-> [p \in {0, 1} |-> Player],
             mapUnits |-> <<>>,
             game |-> [ai_timer |-> 0, game_over |-> FALSE, winner |-> "",
                       end_count |-> 0, quit |-> FALSE, frames |-> 0, inputs |-> 0,
                       base |-> 0, drag |-> InitialDrag],
             log |-> EmptyLog, ret |-> FALSE, hit |-> None]
  IN add_unit(add_unit(W0, 1, 1), 0, 2)

Init ==
  /\ unit = Game_init.unit
  /\ pl = Game_init.pl
  /\ mapUnits = Game_init.mapUnits
  /\ game = Game_init.game
  /\ log = EmptyLog

\* the win/loss check of Game.update
win_check(W) ==
  IF W.game.game_over THEN W
  ELSE IF Len(W.pl[1].units) <= 0
  THEN [W EXCEPT !.game.game_over = TRUE, !.game.winner = "human", !.game.end_count = 0]
  ELSE IF Len(W.pl[0].units) <= 0
  THEN [W EXCEPT !.game.game_over = TRUE, !.game.winner = "computer", !.game.end_count = 0]
  ELSE W

\* the delay that ends at 300 ticks, not after them: C20 must fail under it
end_delay_at_threshold(W, dt) ==
  IF W.game.game_over
  THEN [W EXCEPT !.game.end_count = @ + tick_scale(dt),
                 !.game.quit = @ \/ W.game.end_count + tick_scale(dt) >= EndDelay * FP]
  ELSE W

\* the end-of-game delay of Game.update; quit stands for the posted QUIT event
end_delay(W, dt) ==
  IF W.game.game_over
  THEN [W EXCEPT !.game.end_count = @ + tick_scale(dt),
                 !.game.quit = @ \/ W.game.end_count + tick_scale(dt) > EndDelay * FP]
  ELSE W

\* for u in list(self.map.units): u.act(dt), on the snapshot taken after the AI poll
act_all(W, dt, r) == act_pass(W, W.mapUnits, dt, r)

\* Game.update(dt): dt in ms; rnd and r are the values the random module returns
Game_update(W, dt, rnd, r) ==
  [end_delay(win_check(act_all(ai_logged(W, update_ai(W, dt, rnd)), dt, r)), dt)
     EXCEPT !.game.frames = @ + 1, !.log.ts = tick_scale(dt)]

\* the values random.randint can return during one update
PatrolPoints == {<<0, 0>>, <<3000, 3000>>}
NoDraw == [button |-> 0, px |-> 0, py |-> 0]
Draws == {[button |-> b, px |-> pt[1], py |-> pt[2]] : b \in {0, 1}, pt \in PatrolPoints}

\* the draws update_ai consumes: none while the AI has no barracks and no patrol
DrawsOf(W) ==
  IF \E id \in 1..Len(W.unit) :
       W.unit[id].tracked /\ W.unit[id].kind \in {"Barracks"} \cup OffensiveKinds
  THEN Draws
  ELSE {NoDraw}

\* the rolls attack consumes: none while every attacker's power exceeds the defense
RollsOf(W) ==
  IF \E a, b \in 1..Len(W.unit) : W.unit[a].power - W.unit[b].defense < 1
  THEN {0, 1}
  ELSE {0}

Commit(W) ==
  /\ Len(W.unit) - W.game.base <= MaxUnits
  /\ unit' = W.unit
  /\ pl' = W.pl
  /\ mapUnits' = W.mapUnits
  /\ game' = W.game
  /\ log' = W.log

\* one pass of the main loop's Game.update, with a frame time drawn from dts
Update(dts, frames) ==
  /\ ~game.quit
  /\ game.frames < frames
  /\ \E dt \in dts, rnd \in DrawsOf(World), r \in RollsOf(World) :
       Commit(Game_update(World, dt, rnd, r))

\* an input event reaches its handler; inputs counts the events of the run
input(W) == [W EXCEPT !.game.inputs = @ + 1]

\* MOUSEBUTTONDOWN on the map: HumanPlayer.click
MapClick(buttons, points, clicks) ==
  /\ ~game.quit
  /\ game.inputs < clicks
  /\ \E button \in buttons, pt \in points :
       Commit(input(HumanPlayer_click(World, button, pt[1], pt[2])))

\* MOUSEBUTTONDOWN on button bb[i] of the HUD
HudButton(is, clicks) ==
  /\ ~game.quit
  /\ game.inputs < clicks
  /\ \E i \in is :
       Commit(input(click_buffer_button(World, 0, i)))

\* MOUSEBUTTONUP at the end of a drag: the selection box r
Marquee(boxes, clicks) ==
  /\ ~game.quit
  /\ game.inputs < clicks
  /\ \E r \in boxes :
       Commit(input(mouse_released_select_box(World, r)))

\* MOUSEBUTTONDOWN of button 1 at a point of the screen
BeginDrag(points, clicks) ==
  /\ ~game.quit
  /\ game.inputs < clicks
  /\ ~game.drag.left_down
  /\ \E pt \in points :
       Commit(input(HumanPlayer_begin_drag(World, pt[1], pt[2])))

\* MOUSEMOTION to a point of the screen
MoveDrag(points, clicks) ==
  /\ ~game.quit
  /\ game.inputs < clicks
  /\ \E pt \in points :
       Commit(input(HumanPlayer_update_drag(World, pt[1], pt[2])))

\* MOUSEBUTTONUP of button 1 where the cursor is, above the HUD strip
ReleaseDrag(clicks) ==
  /\ ~game.quit
  /\ game.inputs < clicks
  /\ game.drag.left_down
  /\ game.drag.dragCurY < hud_top
  /\ Commit(input(mouse_button_up(World)))

\* MOUSEBUTTONUP on button unitButtons[i] of the HUD
UnitButton(is, clicks) ==
  /\ ~game.quit
  /\ game.inputs < clicks
  /\ \E i \in is :
       Commit(input(click_unit_button(World, 0, i)))

\* a run that starts in the state W a script of inputs has led to
Start(W) ==
  /\ unit = W.unit
  /\ pl = W.pl
  /\ mapUnits = W.mapUnits
  /\ game = [W.game EXCEPT !.frames = 0, !.inputs = 0]
  /\ log = EmptyLog

\* the same after a longer script: MaxUnits bounds the objects created in the run
StartLate(W) == Start([W EXCEPT !.game.base = Len(W.unit)])

----------------------------------------------------------------------------
(* Spec: the game from its construction. dt is the time since the previous  *)
(* frame, whatever it was: frames of 5 s and 90 s (a stalled process) drive *)
(* the game far in few steps. The human clicks on Tara, on the place where  *)
(* Tara puts its units and near the corner of the map, and presses the HUD  *)
(* buttons 0, 1 and 8 (cancel).                                             *)

DtChoices == {5000, 90000}
ClickPoints == {<<800, 150>>, <<880, 210>>, <<5, 5>>}
HudButtons == {0, 1, 8}

Next ==
  \/ Update(DtChoices, MaxFrames)
  \/ MapClick({1}, ClickPoints, MaxClicks)
  \/ HudButton(HudButtons, MaxClicks)

Spec == Init /\ [][Next]_vars

----------------------------------------------------------------------------
(* SpecQueue: the human has selected Tara and presses its HUD buttons:      *)
(* 0 orders a builder, 1 orders Brian Boru, 8 cancels the newest order.     *)

QueueScript == HumanPlayer_click(Game_init, 1, 800, 150)

InitQueue == Start(QueueScript)

NextQueue ==
  \/ Update(DtChoices, MaxQueueFrames)
  \/ HudButton(HudButtons, MaxQueueClicks)

SpecQueue == InitQueue /\ [][NextQueue]_vars

----------------------------------------------------------------------------
(* SpecBuild: the human has made a builder and selected it; the balance is  *)
(* below the cost of a command center. The human picks a building on the    *)
(* HUD (1 command center, 2 barracks) and clicks on free ground.            *)

BuildScript ==
  HumanPlayer_click(
    Game_update(
      click_buffer_button(HumanPlayer_click(Game_init, 1, 800, 150), 0, 0),
      5000, NoDraw, 0),
    1, 880, 210)

BuildPoints == {<<1000, 300>>, <<1300, 600>>}

InitBuild == Start(BuildScript)

NextBuild ==
  \/ Update({5000}, MaxBuildFrames)
  \/ MapClick({1}, BuildPoints, MaxBuildClicks)
  \/ HudButton({1, 2}, MaxBuildClicks)

SpecBuild == InitBuild /\ [][NextBuild]_vars

----------------------------------------------------------------------------
(* SpecBattle: the human has made Brian Boru and sent him to the builder of *)
(* the computer player, who has put up a supply depot. Frames are 17 ms.    *)

BattleScript ==
  Game_update(
    HumanPlayer_click(
      HumanPlayer_click(
        Game_update(
          click_buffer_button(HumanPlayer_click(Game_init, 1, 800, 150), 0, 1),
          15000, NoDraw, 0),
        1, 880, 210),
      3, 2178, 2178),
    15000, NoDraw, 0)

BattlePoints == {<<2178, 2178>>, <<2990, 2990>>}

InitBattle == Start(BattleScript)

NextBattle ==
  \/ Update({17}, MaxBattleFrames)
  \/ MapClick({1, 3}, BattlePoints, MaxBattleClicks)

SpecBattle == InitBattle /\ [][NextBattle]_vars

----------------------------------------------------------------------------
(* SpecAttack: OffensiveInfantry.attack over its inputs. Two spearmen of    *)
(* opposite sides stand next to each other; the power of the first, the     *)
(* defense of the second and the attack upgrade of the first one's player   *)
(* are drawn from bounded sets, and the act pass of a 17 ms frame is run.   *)

AttackWorld(power, def, upgrade) ==
  LET a == [Unit("Spearman", 0) EXCEPT !.buildTime = 0, !.x = 100, !.y = 100,
                                       !.power = power, !.obsession = 2,
                                       !.personal_space = Rect(97, 97, 36, 36)]
      t == [Unit("Spearman", 1) EXCEPT !.buildTime = 0, !.x = 120, !.y = 100,
                                       !.destinationX = 120, !.defense = def,
                                       !.personal_space = Rect(117, 97, 36, 36)]
  IN [Game_init EXCEPT !.unit = <<a, t>>,
                       !.mapUnits = <<1, 2>>,
                       !.pl[0].units = <<1>>,
                       !.pl[1].units = <<2>>,
                       !.pl[0].attackUpgrade = upgrade]

InitAttack ==
  \E power \in 0..MaxPower, def \in 0..MaxDefense, upgrade \in BOOLEAN :
    Start(AttackWorld(power, def, upgrade))

ActPass(dts, frames) ==
  /\ game.frames < frames
  /\ \E dt \in dts, r \in {0, 1} :
       Commit([act_all(World, dt, r) EXCEPT !.game.frames = @ + 1,
                                            !.log.ts = tick_scale(dt)])

NextAttack == ActPass({17}, MaxAttacks)

SpecAttack == InitAttack /\ [][NextAttack]_vars

----------------------------------------------------------------------------
(* SpecSupply: Player.add_unit over the population of the player. The human *)
(* has selected Tara and one frame has passed, so Tara supports its 20      *)
(* units. The population the human has made before (totalUnitsValue) is     *)
(* drawn from the values that leave a headroom of 0..MaxHeadroom; the units *)
(* that make it up take no part in add_unit and are left out of the world.  *)
(* The human then orders builders and Brian Boru and cancels orders.        *)

SupplyWorld(headroom) ==
  LET W == Game_update(QueueScript, 5000, NoDraw, 0)
  IN [W EXCEPT !.pl[0].totalUnitsValue = W.pl[0].supportedUnitsValue - headroom]

InitSupply == \E headroom \in 0..MaxHeadroom : Start(SupplyWorld(headroom))

NextSupply ==
  \/ Update(DtChoices, MaxSupplyFrames)
  \/ HudButton(HudButtons, MaxSupplyClicks)

SpecSupply == InitSupply /\ [][NextSupply]_vars

----------------------------------------------------------------------------
(* SpecSelect: the human has made two builders and drawn a box around them. *)
(* The human presses button 2 (barracks), clicks on free ground and on the  *)
(* barracks going up there (left and right button), draws boxes around the  *)
(* builders, the new barracks or everything, and presses the unit buttons.  *)

SelectScript ==
  mouse_released_select_box(
    Game_update(
      Game_update(
        click_buffer_button(
          click_buffer_button(HumanPlayer_click(Game_init, 1, 800, 150), 0, 0),
          0, 0),
        5000, NoDraw, 0),
      5000, NoDraw, 0),
    Rect(860, 190, 60, 60))

SelectPoints == {<<1000, 300>>}
SelectBoxes == {Rect(860, 190, 60, 60), Rect(950, 250, 100, 100), Rect(700, 50, 400, 400)}

InitSelect == StartLate(SelectScript)

NextSelect ==
  \/ Update({5000}, MaxSelectFrames)
  \/ MapClick({1, 3}, SelectPoints, MaxSelectClicks)
  \/ HudButton({2}, MaxSelectClicks)
  \/ Marquee(SelectBoxes, MaxSelectClicks)
  \/ UnitButton({0, 1}, MaxSelectClicks)

SpecSelect == InitSelect /\ [][NextSelect]_vars

----------------------------------------------------------------------------
(* SpecRebuild: the human has made a builder, picked the barracks on the    *)
(* HUD and clicked on free ground: a barracks is going up at (955, 255).    *)
(* The human presses button 2 again and clicks on the barracks, on free     *)
(* ground further away and next to the corner of Tara; frames of 5 s and    *)
(* 90 s pass.                                                               *)

RebuildScript == HumanPlayer_click(click_buffer_button(BuildScript, 0, 2), 1, 1000, 300)

RebuildPoints == {<<1000, 300>>, <<1300, 600>>, <<880, 90>>}

InitRebuild == StartLate(RebuildScript)

NextRebuild ==
  \/ Update(DtChoices, MaxRebuildFrames)
  \/ MapClick({1}, RebuildPoints, MaxRebuildClicks)
  \/ HudButton({2}, MaxRebuildClicks)

SpecRebuild == InitRebuild /\ [][NextRebuild]_vars

----------------------------------------------------------------------------
(* SpecBlock: the human has made a builder and put supply depots on the     *)
(* places around the command center of the computer player that its builder *)
(* scans: on all eight, or on all but the last MaxFree of them. Frames of   *)
(* 5 s (an AI poll each) and 17 ms pass; the human may press button 4 and   *)
(* click on one of its depots or on free ground. The start is computed in   *)
(* two halves, each a value before the next is begun.                       *)

\* the places scanned around the first command center, but the center itself
BlockPlaces == [n \in 1..8 |-> candidate(Game_init.unit[1], IF n < 5 THEN n ELSE n + 1)]

\* button 4 (supply depot) and a click that puts its center on place n, for
\* the places from m to n
RECURSIVE PlaceDepots(_, _, _)
PlaceDepots(W, m, n) ==
  IF n < m THEN W
  ELSE HumanPlayer_click(
         click_buffer_button(PlaceDepots(W, m, n - 1), 0, 4),
         1,
         BlockPlaces[n][1] + Width("SupplyDepot") \div 2,
         BlockPlaces[n][2] + Height("SupplyDepot") \div 2)


BlockPoints == {<<2225, 2225>>, <<2000, 2000>>}

InitBlock ==
  \E free \in 0..MaxFree :
    \E half \in {PlaceDepots(BuildScript, 1, 4)} :
      \E all \in {PlaceDepots(half, 5, 8 - free)} : StartLate(all)

NextBlock ==
  \/ Update({17, 5000}, MaxBlockFrames)
  \/ MapClick({1}, BlockPoints, MaxBlockClicks)
  \/ HudButton({4}, MaxBlockClicks)

SpecBlock == InitBlock /\ [][NextBlock]_vars

----------------------------------------------------------------------------
(* SpecEnd: the end of the game. Each player is down to one spearman, the   *)
(* two stand side by side and fight each other, and the health of each is   *)
(* drawn from one point and full health. Frames of 17 ms, 2 s, 5 s and 90 s   *)
(* pass.                                                                    *)

EndWorld(ha, ht) ==
  LET W == AttackWorld(MaxPower, 0, FALSE)
  IN [W EXCEPT !.unit[1].health = ha, !.unit[2].health = ht, !.unit[2].obsession = 1]

EndHealths == {1, maxHealth("Spearman") * FP}

InitEnd == \E ha \in EndHealths, ht \in EndHealths : Start(EndWorld(ha, ht))

NextEnd == Update({17, 2000, 5000, 90000}, MaxEndFrames)

SpecEnd == InitEnd /\ [][NextEnd]_vars

----------------------------------------------------------------------------
(* SpecDrag: drags of the left button. The human has Tara and two builders  *)
(* and nothing selected. The button is pressed on Tara, on a builder, on free *)
(* ground, on the HUD strip or on the minimap; the cursor moves to one of    *)
(* these places or to a place two pixels from the builder; the button is     *)
(* released where the cursor is, when that is above the HUD strip.           *)

DragScript == HumanPlayer_click(SelectScript, 1, 1000, 400)

MapAreaPoints == {<<300, 150>>, <<380, 210>>, <<382, 212>>, <<450, 300>>}
HudPoints == {<<250, 400>>, <<50, 420>>}

InitDrag == StartLate(DragScript)

NextDrag ==
  \/ BeginDrag(MapAreaPoints \cup HudPoints, MaxDragEvents)
  \/ MoveDrag(MapAreaPoints \cup HudPoints, MaxDragEvents)
  \/ ReleaseDrag(MaxDragEvents)

SpecDrag == InitDrag /\ [][NextDrag]_vars

----------------------------------------------------------------------------
(* SpecMove: Infantry.get_next_logical_location over its inputs. One unit   *)
(* of the human, a builder or a horseman, stands at a drawn place with a    *)
(* drawn destination: a place it stands on, places a right click near the   *)
(* edge or a patrol of the AI can give (-12, 3000), and places in between.   *)
(* Frames of 17 ms, 33 ms and 5 s pass.                                      *)

MoveWorld(k, x, y, dx, dy) ==
  LET u == [Unit(k, 0) EXCEPT !.buildTime = 0, !.x = x, !.y = y,
                              !.destinationX = dx, !.destinationY = dy]
  IN [Game_init EXCEPT !.unit = <<u>>,
                       !.mapUnits = <<1>>,
                       !.pl[0].units = <<1>>,
                       !.pl[1].units = <<>>]

MovePlaces == {0, 100, 2950}
MoveDestinations == {-12, 97, 3000}

InitMove ==
  \E k \in {"Builder", "Horseman"}, x \in MovePlaces, y \in MovePlaces,
     dx \in MoveDestinations, dy \in MoveDestinations :
    Start(MoveWorld(k, x, y, dx, dy))

NextMove == ActPass({17, 33, 5000}, MaxMoves)

SpecMove == InitMove /\ [][NextMove]_vars

----------------------------------------------------------------------------
(* SpecFight: OffensiveInfantry.act over the state of the attacker. A        *)
(* selected spearman of the human stands between a spearman of the computer  *)
(* player and a spearman of its own side; its obsession (none, the enemy,    *)
(* the friend), its ignoreEnemies flag and its health (none left, full) are  *)
(* drawn, and so is the place of the enemy: next to it or out of sight.      *)
(* Frames of 17 ms pass, and the human right-clicks the friend or one of the *)
(* places of the enemy.                                                      *)

FightWorld(obs, ign, ha, ex) ==
  LET W == AttackWorld(2, 0, FALSE)
      f == [Unit("Spearman", 0) EXCEPT !.buildTime = 0, !.x = 68, !.y = 100,
                                       !.destinationX = 68,
                                       !.personal_space = Rect(65, 97, 36, 36)]
  IN [W EXCEPT !.unit = <<[W.unit[1] EXCEPT !.obsession = obs, !.ignoreEnemies = ign,
                                            !.health = ha, !.selected = TRUE],
                          [W.unit[2] EXCEPT !.x = ex, !.destinationX = ex,
                                            !.personal_space = Rect(ex - 3, 97, 36, 36)],
                          f>>,
               !.mapUnits = <<1, 2, 3>>,
               !.pl[0].units = <<1, 3>>]

FightPoints == {<<75, 110>>, <<145, 110>>, <<1010, 110>>}

InitFight ==
  \E obs \in {None, 2, 3}, ign \in BOOLEAN, ha \in {0, maxHealth("Spearman") * FP},
     ex \in {120, 1000} :
    Start(FightWorld(obs, ign, ha, ex))

NextFight ==
  \/ ActPass({17}, MaxFights)
  \/ MapClick({3}, FightPoints, MaxFightClicks)

SpecFight == InitFight /\ [][NextFight]_vars

----------------------------------------------------------------------------
(* SpecPoll: the timer of the AI from the start of the game, over frames of *)
(* 17 ms, of 1 s (two of them reach DIFFICULTY exactly) and of 5 s.         *)

NextPoll == Update({17, 1000, 5000}, MaxPollFrames)

SpecPoll == Init /\ [][NextPoll]_vars

----------------------------------------------------------------------------
(* SpecDrop: a horseman of the human. After the first frame of the game Tara *)
(* supports its units; the horseman then joins the human by add_unit, as a   *)
(* unit made in a stable does, and is selected. Its health is drawn: none    *)
(* left (it dies in the next frame) or full. HUD button 2 of a horseman is   *)
(* DropSpearmanAction.                                                       *)

DropWorld(W, health) ==
  LET h == [Unit("Horseman", 0) EXCEPT !.buildTime = 0, !.x = 1000, !.y = 300,
                                       !.destinationX = 1000, !.destinationY = 300,
                                       !.health = health]
      nid == Len(W.unit) + 1
  IN update_selected_units(select(add_unit([W EXCEPT !.unit = Append(@, h)], 0, nid), nid), 0)

InitDrop ==
  \E health \in {0, maxHealth("Horseman") * FP} :
    \E W \in {Game_update(Game_init, 90000, NoDraw, 0)} :
      \E D \in {DropWorld(W, health)} : StartLate(D)

NextDrop ==
  \/ Update({17, 5000}, MaxDropFrames)
  \/ HudButton({2}, MaxDropClicks)

SpecDrop == InitDrop /\ [][NextDrop]_vars

----------------------------------------------------------------------------
(* SpecRaze: a building under attack while it goes up. The human's barracks  *)
(* of SpecRebuild is going up at (955, 255); a spearman of the computer      *)
(* player, added by add_unit as a unit made in a barracks is, stands at its  *)
(* left edge and is set on it. The health the barracks has left is drawn:    *)
(* one point or all of it. Frames of 17 ms and 5 s pass; the human may press *)
(* button 2 and click as in SpecRebuild.                                     *)

RazeWorld(W, health) ==
  LET b == CHOOSE id \in 1..Len(W.unit) : W.unit[id].kind = "Barracks"
      s == [Unit("Spearman", 1) EXCEPT !.buildTime = 0, !.x = 925, !.y = 255,
                                       !.destinationX = 925, !.destinationY = 255,
                                       !.obsession = b]
      nid == Len(W.unit) + 1
  IN add_unit([W EXCEPT !.unit = Append([@ EXCEPT ![b].health = health], s)], 1, nid)

InitRaze ==
  \E health \in {1, maxHealth("Barracks") * FP} :
    \E W \in {RebuildScript} :
      \E R \in {RazeWorld(W, health)} : StartLate(R)

NextRaze ==
  \/ Update({17, 5000}, MaxRazeFrames)
  \/ MapClick({1}, RebuildPoints, MaxRazeClicks)
  \/ HudButton({2}, MaxRazeClicks)

SpecRaze == InitRaze /\ [][NextRaze]_vars

----------------------------------------------------------------------------
(* SpecWalk: units on their way, for as long as the game runs. The human has *)
(* a builder at (100, 100), selected, and has right-clicked on the map; the  *)
(* computer player has a spearman at (2900, 2900) on patrol, whose first     *)
(* destination the AI has drawn. The two are out of each other's sight.      *)
(* Frames of 17 ms and of 1 s pass without end: the frame counter is left at *)
(* 0, so the states are finitely many. The main loop calls Game.update once  *)
(* per frame for as long as the game runs, and every call either adds dt > 0 *)
(* to ai_timer or resets a timer that was not 0: the steps of Walk are the   *)
(* steps that change ai_timer and nothing else of game. Frame describes them *)
(* by that change alone, and the fairness of the loop is stated on Frame.    *)

WalkClicks == {<<5, 5>>, <<150, 150>>, <<150, 5>>}
WalkDraws == {[button |-> 0, px |-> x, py |-> y] : x \in {2940, 3000}, y \in {2940, 3000}}

WalkWorld(pt, rnd) ==
  LET b == [Unit("Builder", 0) EXCEPT !.buildTime = 0, !.x = 100, !.y = 100,
                                      !.destinationX = 100, !.destinationY = 100,
                                      !.selected = TRUE]
      s == [Unit("Spearman", 1) EXCEPT !.buildTime = 0, !.x = 2900, !.y = 2900,
                                       !.destinationX = 2900, !.destinationY = 2900,
                                       !.tracked = TRUE]
      W == [Game_init EXCEPT !.unit = <<b, s>>,
                             !.mapUnits = <<1, 2>>,
                             !.pl[0].units = <<1>>,
                             !.pl[1].units = <<2>>]
  IN ai_patrol(HumanPlayer_click(W, 3, pt[1], pt[2]), 2, rnd)

InitWalk == \E pt \in WalkClicks, rnd \in WalkDraws : Start(WalkWorld(pt, rnd))

Walk ==
  \E dt \in {17, 1000}, rnd \in WalkDraws :
    \E W \in {[Game_update(World, dt, rnd, 0) EXCEPT !.game.frames = 0]} : Commit(W)

NextWalk == Walk

\* a frame passes: the timer of the AI takes another value
Frame == \E t \in 0..DIFFICULTY : t # game.ai_timer /\ game' = [game EXCEPT !.ai_timer = t]

SpecWalk == InitWalk /\ [][NextWalk]_vars /\ WF_game(Frame)

----------------------------------------------------------------------------
(* SpecGang: two attackers on one target. Two spearmen of the human stand on *)
(* either side of a spearman of the computer player and both have it as      *)
(* their obsession; the first is selected. The power of the first, the       *)
(* health the target has left and the order of the three in the map's unit   *)
(* list are drawn. Act passes of 17 ms are run and the human may right-click *)
(* on the target or on free ground.                                          *)

GangOrders == {<<1, 2, 3>>, <<1, 3, 2>>, <<2, 1, 3>>}
GangHealths == {1 * FP, 3 * FP, maxHealth("Spearman") * FP}
GangPoints == {<<135, 110>>, <<1010, 110>>}

GangWorld(power, ht, order) ==
  LET W == AttackWorld(power, 0, FALSE)
      b == [Unit("Spearman", 0) EXCEPT !.buildTime = 0, !.x = 140, !.y = 100,
                                       !.destinationX = 140, !.obsession = 2,
                                       !.personal_space = Rect(137, 97, 36, 36)]
  IN [W EXCEPT !.unit = <<[W.unit[1] EXCEPT !.selected = TRUE],
                          [W.unit[2] EXCEPT !.health = ht],
                          b>>,
               !.mapUnits = order,
               !.pl[0].units = <<1, 3>>]

InitGang ==
  \E power \in 0..MaxPower, ht \in GangHealths, order \in GangOrders :
    Start(GangWorld(power, ht, order))

NextGang ==
  \/ ActPass({17}, MaxGangFrames)
  \/ MapClick({3}, GangPoints, MaxGangClicks)

SpecGang == InitGang /\ [][NextGang]_vars

----------------------------------------------------------------------------
(* Properties *)

IsUpdateStep == game'.frames = game.frames + 1

\* C1: a mobile unit that has taken a movement step (act with any dt and any
\* destination, the unit just produced included) has 0 <= x <= map.width - width
\* and 0 <= y <= map.height - height.
C1_PositionInMap ==
  \A id \in 1..Len(unit) :
    IsInfantry(unit[id].kind) /\ unit[id].moved =>
      /\ 0 <= unit[id].x /\ unit[id].x <= MapWidth - Width(unit[id].kind)
      /\ 0 <= unit[id].y /\ unit[id].y <= MapHeight - Height(unit[id].kind)

\* a builder sent beyond the corner of the map stands on the corner
C1_Witness ==
  \E id \in 1..Len(unit) :
    /\ IsInfantry(unit[id].kind) /\ unit[id].moved
    /\ unit[id].destinationX < 0 /\ unit[id].destinationY < 0
    /\ unit[id].x = 0 /\ unit[id].y = 0

\* C2: a unit that is on the map with health <= 0 when an update begins its act
\* pass is in neither its owner's unit list nor the map's unit list when the
\* update has finished.
C2_DeadRemoved ==
  [][IsUpdateStep =>
       \A i \in 1..Len(mapUnits) :
         unit[mapUnits[i]].health <= 0 =>
           /\ ~Contains(mapUnits', mapUnits[i])
           /\ ~Contains(pl'[unit[mapUnits[i]].side].units, mapUnits[i])]_vars

\* the last update removed a unit that had no health left
C2_Witness ==
  \E i \in 1..Len(log.dead) :
    /\ unit[log.dead[i]].health <= 0
    /\ ~Contains(mapUnits, log.dead[i])
    /\ ~Contains(pl[unit[log.dead[i]].side].units, log.dead[i])

\* C3: in every reachable state the health of each unit is at most its
\* maxHealth: the regeneration of a hero is clamped within the same act, and
\* nothing else raises health.
C3_HealthAtMostMax ==
  \A id \in 1..Len(unit) : unit[id].health <= maxHealth(unit[id].kind) * FP

\* a hero that has acted in a pass in which an attack was resolved is at full health
C3_Witness ==
  /\ log.attack # <<>>
  /\ \E id \in 1..Len(unit) :
       /\ IsHero(unit[id].kind) /\ unit[id].moved
       /\ unit[id].health = maxHealth(unit[id].kind) * FP

\* C4: no production queue ever holds more than 5 orders; enqueue on a queue of
\* 5 returns false and leaves the queue as it was, and otherwise appends the
\* order at the back and returns true.
C4_QueueCapacity ==
  /\ \A id \in 1..Len(unit) : Len(unit[id].queue) <= 5
  /\ \A i \in 1..Len(log.enqueue) :
       IF Len(log.enqueue[i].before) >= 5
       THEN ~log.enqueue[i].ret /\ log.enqueue[i].after = log.enqueue[i].before
       ELSE /\ log.enqueue[i].ret
            /\ log.enqueue[i].after = Append(log.enqueue[i].before, log.enqueue[i].obj)

\* a sixth order was refused
C4_Witness ==
  \E i \in 1..Len(log.enqueue) :
    /\ Len(log.enqueue[i].before) = 5
    /\ ~log.enqueue[i].ret
    /\ unit[log.enqueue[i].building].queue = log.enqueue[i].before

\* C5: production is first in, first out: in an update a completed building
\* works on its queue once, it lowers only the front order's remaining time, by
\* tick_scale(dt), and it takes an order out only from the front and only when
\* that time is <= 0, so at most one order per building and update.
C5_Fifo ==
  /\ \A i \in 1..Len(log.produce) :
       /\ log.produce[i].before # <<>>
       /\ ~is_being_built(unit[log.produce[i].building])
       /\ IF log.produce[i].produced
          THEN /\ Head(log.produce[i].before).buildTime - log.produce[i].ts <= 0
               /\ log.produce[i].after = Tail(log.produce[i].before)
               /\ log.produce[i].kind = Head(log.produce[i].before).kind
          ELSE /\ Head(log.produce[i].before).buildTime - log.produce[i].ts > 0
               /\ log.produce[i].after =
                    [log.produce[i].before EXCEPT ![1].buildTime = @ - log.produce[i].ts]
  /\ \A i, j \in 1..Len(log.produce) :
       log.produce[i].building = log.produce[j].building => i = j

\* the front order was produced while a younger order of another kind waited
C5_Witness ==
  \E i \in 1..Len(log.produce) :
    /\ log.produce[i].produced
    /\ Len(log.produce[i].before) >= 2
    /\ log.produce[i].before[2].kind # log.produce[i].before[1].kind
    /\ unit[log.produce[i].building].queue = Tail(log.produce[i].before)

\* C6: Player.add_unit of a hero for a player that has a hero returns false and
\* leaves the player (resources, unit list, counters, population totals) and
\* the map's unit list as they were.
C6_SecondHeroRefused ==
  \A i \in 1..Len(log.add) :
    IsHero(log.add[i].kind) /\ log.add[i].before.hasHero =>
      /\ ~log.add[i].ok
      /\ log.add[i].after = log.add[i].before
      /\ log.add[i].mapAfter = log.add[i].mapBefore

\* a second hero was refused although the player could pay for it
C6_Witness ==
  \E i \in 1..Len(log.add) :
    /\ IsHero(log.add[i].kind) /\ log.add[i].before.hasHero
    /\ cost(log.add[i].kind) * RES < log.add[i].before.resources
    /\ ~log.add[i].ok
    /\ pl[log.add[i].side] = log.add[i].before

C8_Damage ==
  \A i \in 1..Len(log.attack) :
    LET e == log.attack[i]
        d == e.power - e.defense
        bonus == IF e.upgrade THEN 2 ELSE 0
    IN /\ e.r \in {0, 1}
       /\ e.before - e.after = ((IF d >= e.r THEN d ELSE e.r) + bonus) * FP
       /\ d >= 1 => e.before - e.after = (d + bonus) * FP

\* power 2 against defense 0 without the upgrade took exactly 2, and with a
\* roll of 1 at that
C8_Witness ==
  \E i \in 1..Len(log.attack) :
    /\ log.attack[i].power = 2 /\ log.attack[i].defense = 0
    /\ ~log.attack[i].upgrade /\ log.attack[i].r = 1
    /\ log.attack[i].before - log.attack[i].after = 2 * FP

\* C9: Player.add_unit of a unit that costs more than the player's balance
\* returns false, leaves the balance as it was and the unit out of the
\* player's list and the map's list.
C9_TooExpensiveRefused ==
  \A i \in 1..Len(log.add) :
    cost(log.add[i].kind) * RES > log.add[i].before.resources =>
      /\ ~log.add[i].ok
      /\ log.add[i].after.resources = log.add[i].before.resources
      /\ log.add[i].after.units = log.add[i].before.units
      /\ log.add[i].mapAfter = log.add[i].mapBefore
      /\ ~Contains(log.add[i].after.units, log.add[i].id)
      /\ ~Contains(log.add[i].mapAfter, log.add[i].id)

\* a command center of cost 400 was refused to a player who owns 394
C9_Witness ==
  \E i \in 1..Len(log.add) :
    /\ cost(log.add[i].kind) * RES > log.add[i].before.resources
    /\ ~has_hero_already(log.add[i].before, log.add[i].kind)
    /\ ~limit_reached(log.add[i].before, log.add[i].kind)
    /\ ~log.add[i].ok
    /\ pl[log.add[i].side].resources = log.add[i].before.resources

C11_PopulationHeadroom ==
  \A i \in 1..Len(log.add) :
    LET e == log.add[i]
    IN IsInfantry(e.kind) =>
         /\ unitValue(e.kind) > e.before.supportedUnitsValue - e.before.totalUnitsValue
              => /\ ~e.ok
                 /\ e.after = e.before
                 /\ e.mapAfter = e.mapBefore
         /\ e.ok => e.after.totalUnitsValue <= e.after.supportedUnitsValue

\* an affordable builder is refused because the population is full
C11_Witness ==
  \E i \in 1..Len(log.add) :
    LET e == log.add[i]
    IN /\ IsInfantry(e.kind)
       /\ ~e.ok
       /\ cost(e.kind) * RES < e.before.resources
       /\ unitValue(e.kind) > e.before.supportedUnitsValue - e.before.totalUnitsValue
       /\ e.before.totalUnitsValue = e.before.supportedUnitsValue

\* C12: a successful add_unit(u) debits the player by exactly the cost of u and
\* appends u once to the player's list and once to the map's list; it leaves the
\* other player's balance, list and counters alone; an order that is only put in
\* a queue debits nothing
C12_AddEffects ==
  [][
      /\ \A i \in 1..Len(log'.add) :
          LET e == log'.add[i]
          IN e.ok =>
               /\ e.after.resources = e.before.resources - cost(e.kind) * RES
               /\ e.after.units = Append(e.before.units, e.id)
               /\ e.mapAfter = Append(e.mapBefore, e.id)
      /\ (game'.inputs = game.inputs + 1 /\ Len(log'.add) = 1 /\ log'.add[1].ok) =>
            LET e == log'.add[1]
            IN /\ pl'[1 - e.side] = pl[1 - e.side]
               /\ pl'[e.side].resources = pl[e.side].resources - cost(e.kind) * RES
               /\ pl'[e.side].units = Append(pl[e.side].units, e.id)
               /\ mapUnits' = Append(mapUnits, e.id)
      /\ \A p \in {0, 1} :
           (/\ IsUpdateStep
            /\ log'.dead = <<>>
            /\ \E i \in 1..Len(log'.add) : log'.add[i].ok /\ log'.add[i].side = 1 - p
            /\ \A i \in 1..Len(log'.add) : log'.add[i].side # p) =>
             /\ pl'[p].units = pl[p].units
             /\ pl'[p].comandCenterCount = pl[p].comandCenterCount
             /\ pl'[p].supplyDepotCount = pl[p].supplyDepotCount
             /\ pl'[p].totalUnitsValue = pl[p].totalUnitsValue
             /\ pl'[p].hasHero = pl[p].hasHero
      /\ (game'.inputs = game.inputs + 1 /\ log'.enqueue # <<>>) =>
            \A p \in {0, 1} : pl'[p].resources = pl[p].resources
     ]_vars

\* the human has placed a building with a click: one successful add_unit
C12_Witness ==
  /\ game.inputs > 0
  /\ Len(log.add) = 1
  /\ log.add[1].ok
  /\ log.add[1].side = 0
  /\ IsBuilding(log.add[1].kind)
  /\ log.add[1].after.resources < log.add[1].before.resources

\* C13: no building with buildTime > 0 is ever selected; a click taken by a building
\* under construction assigns every selected builder of the player to it (toBuild,
\* building, destination) and selects no unit that was not selected before
C13_NoSelectionUnderConstruction ==
  /\ [](\A id \in 1..Len(unit) :
          IsBuilding(unit[id].kind) /\ unit[id].buildTime > 0 => ~unit[id].selected)
  /\ [][\A i \in 1..Len(log'.click) :
          LET e == log'.click[i]
          IN (e.hit # None /\ IsBuilding(unit[e.hit].kind) /\ unit[e.hit].buildTime > 0) =>
               /\ \A j \in 1..Len(e.sel) :
                    unit[e.sel[j]].kind = "Builder" =>
                      /\ unit'[e.sel[j]].toBuild = e.hit
                      /\ unit'[e.sel[j]].building
                      /\ unit'[e.sel[j]].destinationX = unit[e.hit].x
                      /\ unit'[e.sel[j]].destinationY = unit[e.hit].y
               /\ ~unit'[e.hit].selected
               /\ \A k \in 1..Len(unit') :
                    unit'[k].selected => k <= Len(unit) /\ unit[k].selected
       ]_vars

\* the human has clicked on its barracks under construction with a builder selected,
\* who is now assigned to it
C13_Witness ==
  /\ Len(log.click) = 1
  /\ log.click[1].hit # None
  /\ unit[log.click[1].hit].kind = "Barracks"
  /\ unit[log.click[1].hit].buildTime > 0
  /\ \E j \in 1..Len(log.click[1].sel) :
       /\ unit[log.click[1].sel[j]].kind = "Builder"
       /\ unit[log.click[1].sel[j]].toBuild = log.click[1].hit
       /\ unit[log.click[1].sel[j]].building

\* C14: deselect_all leaves every unit of the player unselected, a second call
\* changes nothing more, and neither call changes anything but the selected flags;
\* stated of every state the calls can be made in and of the calls the runs made
C14_Unchanged(before, after) ==
  /\ Len(after) = Len(before)
  /\ \A id \in 1..Len(before) :
       [after[id] EXCEPT !.selected = before[id].selected] = before[id]

C14_DeselectAllIdempotent ==
  /\ \A p \in {0, 1} :
       LET once == deselect_all(World, p)
           twice == deselect_all(once, p)
       IN /\ \A i \in 1..Len(pl[p].units) : ~once.unit[pl[p].units[i]].selected
          /\ twice = once
          /\ C14_Unchanged(unit, once.unit)
          /\ [once EXCEPT !.unit = unit] = World
  /\ \A i \in 1..Len(log.deselected) :
       LET e == log.deselected[i]
       IN /\ \A j \in 1..Len(pl[e.side].units) : ~e.after[pl[e.side].units[j]].selected
          /\ C14_Unchanged(e.before, e.after)
          /\ deselect_all([World EXCEPT !.unit = e.after], e.side).unit = e.after

\* a unit button was pressed with two units selected: deselect_all cleared both
C14_Witness ==
  /\ Len(log.deselected) = 1
  /\ Cardinality({id \in 1..Len(log.deselected[1].before) :
                    log.deselected[1].before[id].selected}) >= 2
  /\ \A id \in 1..Len(log.deselected[1].after) : ~log.deselected[1].after[id].selected

\* what the accruals logged for building id add up to
RECURSIVE AccruedBy(_, _)
AccruedBy(entries, id) ==
  IF entries = <<>> THEN 0
  ELSE (IF Head(entries).id = id THEN Head(entries).amount ELSE 0)
       + AccruedBy(Tail(entries), id)

\* what the accruals logged for player p add up to
RECURSIVE AccruedFor(_, _)
AccruedFor(entries, p) ==
  IF entries = <<>> THEN 0
  ELSE (IF Head(entries).side = p THEN Head(entries).amount ELSE 0)
       + AccruedFor(Tail(entries), p)

\* what the successful add_unit calls of player p cost
RECURSIVE SpentBy(_, _)
SpentBy(entries, p) ==
  IF entries = <<>> THEN 0
  ELSE (IF Head(entries).side = p /\ Head(entries).ok THEN cost(Head(entries).kind) * RES ELSE 0)
       + SpentBy(Tail(entries), p)

\* C15: in every tick each building on the map that is not under construction adds
\* exactly resourceIncrease * tick_scale(dt) to its owner's balance, a building
\* still under construction adds nothing and has no order to advance, and a
\* player's balance changes by its own buildings' accrual and its own spending only
C15_PassiveAccrual ==
  [][IsUpdateStep =>
       /\ \A id \in 1..Len(unit) :
            (IsBuilding(unit[id].kind) /\ Contains(mapUnits, id) /\ unit[id].buildTime <= 0) =>
              AccruedBy(log'.accrue, id) = resourceIncrease(unit[id].kind) * log'.ts
       /\ \A id \in 1..Len(unit') :
            (IsBuilding(unit'[id].kind) /\ unit'[id].buildTime > 0) =>
              /\ AccruedBy(log'.accrue, id) = 0
              /\ unit'[id].queue = <<>>
       /\ \A id \in 1..Len(unit') :
            AccruedBy(log'.accrue, id) \in {0, resourceIncrease(unit'[id].kind) * log'.ts}
       /\ \A p \in {0, 1} :
            pl'[p].resources =
              pl[p].resources + AccruedFor(log'.accrue, p) - SpentBy(log'.add, p)
              - (IF pl'[p].attackUpgrade /\ ~pl[p].attackUpgrade THEN UpgradeCost * RES ELSE 0)
     ]_vars

\* the footprint a building of kind k takes when it is placed by a click at (wx, wy)
C16_Footprint(k, wx, wy) ==
  Rect(wx - Width(k) \div 2, wy - Height(k) \div 2, Width(k), Height(k))

\* C16: in build mode a left click whose target footprint collides with a unit on
\* the map changes nothing (no unit added, balance, counters and lists unchanged,
\* the builder not set to building), and a building the human places overlaps no
\* other unit of the map when it is placed
C16_PlacementConflict ==
  [][/\ \A i \in 1..Len(log'.click) :
          LET e == log'.click[i]
              bm == pl[0].builder_mode
          IN (e.button = 1 /\ bm # None) =>
               (unit[bm].toBuild # None =>
                  (Map_is_colliding_with_unit(
                     World, C16_Footprint(unit[unit[bm].toBuild].kind, e.wx, e.wy)) =>
                       /\ log'.add = <<>>
                       /\ pl' = pl
                       /\ mapUnits' = mapUnits
                       /\ unit'[bm].building = unit[bm].building))
     /\ \A i \in 1..Len(log'.add) :
          LET e == log'.add[i]
          IN (game'.inputs = game.inputs + 1 /\ e.ok /\ e.side = 0 /\ IsBuilding(e.kind)) =>
               \A j \in 1..Len(mapUnits) :
                 mapUnits[j] # e.id =>
                   ~colliderect(rect(unit'[mapUnits[j]]), rect(unit'[e.id]))
     ]_vars

\* C17: a build order the player cannot pay for (or has no counter headroom for) has
\* no effect: the building is added to neither list, and the player's balance and
\* counters, the build mode and the builder's building flag, destination and
\* toBuild are what they were before the order
C17_RejectedOrderNoEffect ==
  [][\A i \in 1..Len(log'.add) :
       LET e == log'.add[i]
           bm == pl[0].builder_mode
       IN (~e.ok /\ IsBuilding(e.kind)) =>
            /\ e.after = e.before
            /\ e.mapAfter = e.mapBefore
            /\ (game'.inputs = game.inputs + 1 /\ bm # None) =>
                 /\ pl' = pl
                 /\ mapUnits' = mapUnits
                 /\ unit'[bm].building = unit[bm].building
                 /\ unit'[bm].destinationX = unit[bm].destinationX
                 /\ unit'[bm].destinationY = unit[bm].destinationY
                 /\ unit'[bm].toBuild = unit[bm].toBuild
    ]_vars

\* the rectangle a building of kind k has on the n-th place scanned around u
C18_Place(u, k, n) ==
  LET i == ((n - 1) \div 3) - 1
      j == ((n - 1) % 3) - 1
      w == Width(u.kind)
      h == Height(u.kind)
  IN Rect(u.x + w \div 2 + i * (w \div 2 + 3 * w), u.y + h \div 2 + j * (h \div 2 + 3 * h),
          Width(k), Height(k))

\* r is strictly inside the map and overlaps no unit of the map of scan e
C18_Usable(e, r) ==
  /\ 0 < r.x /\ r.x + r.w < MapWidth /\ 0 < r.y /\ r.y + r.h < MapHeight
  /\ \A m \in 1..Len(e.mapUnits) : ~colliderect(rect(e.unit[e.mapUnits[m]]), r)

\* no place scanned around any building of the computer player is usable
C18_NoPlace(e) ==
  \A k \in 1..Len(e.own) : \A n \in 1..9 :
    IsBuilding(e.unit[e.own[k]].kind) =>
      ~C18_Usable(e, C18_Place(e.unit[e.own[k]], e.unit[e.tb].kind, n))

\* C18: in a tick, when no place scanned around any building of the computer
\* player is free and strictly inside the map, the scanning builder is left
\* idle (building false), its building is added neither to the player nor to
\* the map and nothing is debited for it, and the builder is scanned for
\* again at the next poll; and every building the computer player does place
\* lies strictly inside the map and overlaps no unit that was on the map.
C18_AIPlacement ==
  /\ [][IsUpdateStep =>
       \A s \in 1..Len(log'.scan) :
         LET e == log'.scan[s]
             adds == {a \in 1..Len(log'.add) : log'.add[a].id = e.tb}
         IN /\ C18_NoPlace(e) =>
                 /\ ~e.placed
                 /\ ~unit'[e.builder].building
                 /\ adds = {}
                 /\ \A i \in 1..Len(mapUnits') : mapUnits'[i] # e.tb
                 /\ \A i \in 1..Len(pl'[1].units) : pl'[1].units[i] # e.tb
                 /\ pl'[1].resources =
                      pl[1].resources + AccruedFor(log'.accrue, 1) - SpentBy(log'.add, 1)
            /\ \A a \in adds :
                 log'.add[a].ok => C18_Usable(e, rect(unit'[e.tb]))
            /\ (\E i \in 1..Len(mapUnits') : mapUnits'[i] = e.tb) =>
                 C18_Usable(e, rect(unit'[e.tb]))]_vars
  /\ [][(IsUpdateStep /\ game'.ai_timer = 0) =>
          \A s \in 1..Len(log.scan) :
            (~log.scan[s].placed /\ unit[log.scan[s].builder].health > 0) =>
              \E t \in 1..Len(log'.scan) : log'.scan[t].builder = log.scan[s].builder]_vars

\* at the second frame or later the builder of the computer player has scanned
\* in vain and is idle
C18_Witness ==
  /\ game.frames >= 2
  /\ \E s \in 1..Len(log.scan) :
       /\ C18_NoPlace(log.scan[s]) /\ ~log.scan[s].placed
       /\ ~unit[log.scan[s].builder].building

\* how many act calls the tick has made on unit id
C19_Acts(entries, id) == Cardinality({i \in 1..Len(entries) : entries[i] = id})

\* the buildings the AI poll of the tick has put on the map
C19_Placed(entries) ==
  {entries[i].id : i \in {j \in 1..Len(entries) :
                           entries[j].ok /\ entries[j].side = 1 /\ IsBuilding(entries[j].kind)}}

\* C19: a tick runs the AI poll, then one act(dt) for each unit that is on the
\* map when the pass starts (the units that were on it before the tick and the
\* buildings the poll has placed), then the win/loss check: every such unit is
\* acted on exactly once, whatever units remove themselves during the pass, a
\* unit spawned during the pass is not acted on, and a player left without
\* units by the pass has lost in the same tick.
C19_TickOrder ==
  [][IsUpdateStep =>
       /\ \A id \in 1..Len(unit') :
            C19_Acts(log'.act, id) =
              IF Contains(mapUnits, id) \/ id \in C19_Placed(log'.add) THEN 1 ELSE 0
       /\ (Len(pl'[0].units) = 0 \/ Len(pl'[1].units) = 0) => game'.game_over]_vars

\* C20: game_over is set by the first win/loss check that finds the unit
\* list of a player empty, with winner "human" if it is the computer's list
\* and "computer" otherwise; game_over and winner never change afterwards;
\* and QUIT is posted only once the tick_scale(dt) of the ticks since the one
\* that set game_over add up to more than 300.
C20_GameOver ==
  /\ [][IsUpdateStep =>
          /\ game'.game_over <=>
               \/ game.game_over
               \/ Len(pl'[0].units) = 0 \/ Len(pl'[1].units) = 0
          /\ (~game.game_over /\ game'.game_over) =>
               game'.winner = IF Len(pl'[1].units) = 0 THEN "human" ELSE "computer"
          /\ game'.game_over =>
               game'.end_count = (IF game.game_over THEN game.end_count ELSE 0) + log'.ts
          /\ game'.quit => game'.game_over /\ game'.end_count > 300 * FP]_vars
  /\ [][game.game_over => game'.game_over /\ game'.winner = game.winner]_vars
  /\ [][~IsUpdateStep => game'.end_count = game.end_count /\ game'.quit = game.quit]_vars

\* the game is over, has been for more than 300 ticks, and QUIT is posted
C20_Witness ==
  game.game_over /\ game.winner = "computer" /\ game.quit /\ game.end_count > 300 * FP

\* the press of the current drag fell on the HUD strip or on the minimap
C21_OffMap ==
  \/ game.drag.dragAnchorY >= ScreenH - ScreenH \div 4
  \/ collidepoint(Minimap_rect, game.drag.dragAnchorX, game.drag.dragAnchorY)

\* the cursor is DRAG_THRESH pixels or more from the anchor on some axis
C21_Dragged ==
  \/ Abs(game.drag.dragCurX - game.drag.dragAnchorX) >= 4
  \/ Abs(game.drag.dragCurY - game.drag.dragAnchorY) >= 4

\* the step is the release of the left button
C21_Release == game.drag.left_down /\ ~game'.drag.left_down

\* C21 as stated: a selection rectangle exists only during a drag that began
\* above the HUD strip and outside the minimap and has moved the cursor 4
\* pixels or more from the anchor on some axis; and the release of a drag that
\* began on the HUD strip or on the minimap selects no unit.
C21_MarqueeOnlyOnMap ==
  /\ [](game.drag.selecting_rect # <<>> =>
          game.drag.left_down /\ ~C21_OffMap /\ C21_Dragged)
  /\ [][(C21_Release /\ C21_OffMap) =>
          \A id \in 1..Len(unit) : unit'[id].selected => unit[id].selected]_vars

\* C21 amended: the rectangle exists only as stated; the release of a drag
\* that began on the HUD strip or on the minimap runs no marquee selection and
\* is handled as a left click at the place of the release, which may select
\* the unit under the cursor.
C21_MarqueeOnlyOnMapOrClick ==
  /\ [](game.drag.selecting_rect # <<>> =>
          game.drag.left_down /\ ~C21_OffMap /\ C21_Dragged)
  /\ [][(C21_Release /\ C21_OffMap) =>
          /\ log'.box = <<>>
          /\ Len(log'.click) = 1
          /\ log'.click[1].button = 1
          /\ log'.click[1].wx = game.drag.dragCurX - game.drag.mapX
          /\ log'.click[1].wy = game.drag.dragCurY - game.drag.mapY]_vars
  /\ [][(C21_Release /\ ~C21_OffMap /\ C21_Dragged) =>
          Len(log'.box) = 1 /\ log'.click = <<>>]_vars

\* a drag that began on the HUD strip has been released far from its anchor,
\* over a unit, and the click of the release has selected the unit
C21_Witness ==
  /\ ~game.drag.left_down /\ C21_OffMap /\ C21_Dragged
  /\ game.drag.selecting_rect = <<>>
  /\ Len(log.click) = 1 /\ log.click[1].hit # None
  /\ \E id \in 1..Len(unit) : unit[id].selected

\* one axis of a movement step from a to b toward the destination d, at spd
\* (in 1/FP pixels) per step: no further than spd, no overshoot, no retreat
C22_Axis(a, b, d, spd) ==
  /\ Abs(b - a) * FP <= spd
  /\ (d - a) * (d - b) >= 0
  /\ Abs(d - b) <= Abs(d - a)

\* C22: in one movement step a mobile unit whose destination stays moves on
\* each axis by at most speed * tick_scale(dt), never past its destination
\* and never away from it.
C22_StepBounded ==
  [][IsUpdateStep =>
       \A id \in 1..Len(unit) :
         (/\ IsInfantry(unit[id].kind) /\ Contains(mapUnits, id)
          /\ unit'[id].destinationX = unit[id].destinationX
          /\ unit'[id].destinationY = unit[id].destinationY) =>
           /\ C22_Axis(unit[id].x, unit'[id].x, unit[id].destinationX,
                       speed(unit[id].kind) * log'.ts)
           /\ C22_Axis(unit[id].y, unit'[id].y, unit[id].destinationY,
                       speed(unit[id].kind) * log'.ts)]_vars

\* C23: every attack resolved in a tick is made by a unit that is alive and
\* not ignoring enemies, on a unit of the other side whose personal space
\* meets the attacker's attack range; health is lost to such attacks only, so
\* never to a unit of the own side, whatever a right click made the
\* obsession; and a unit that holds position stays where it is in its next
\* movement step.
C23_AttackGuard ==
  [][/\ \A i \in 1..Len(log'.attack) :
          LET e == log'.attack[i]
          IN /\ e.health > 0
             /\ ~e.ignoreEnemies
             /\ unit[e.attacker].side # unit[e.target].side
             /\ colliderect(e.attack_range, e.personal_space)
     /\ \A id \in 1..Len(unit) :
          unit'[id].health < unit[id].health =>
            \E i \in 1..Len(log'.attack) :
              /\ log'.attack[i].target = id
              /\ unit[log'.attack[i].attacker].side # unit[id].side
     /\ IsUpdateStep =>
          \A id \in 1..Len(unit) :
            (IsOffensive(unit[id].kind) /\ Contains(mapUnits, id) /\ unit[id].holdPosition) =>
              unit'[id].x = unit[id].x /\ unit'[id].y = unit[id].y]_vars

\* after a frame the living spearman of the human, not ignoring enemies, has
\* the friend next to it for its obsession, as a right click made it
C23_Witness ==
  /\ log.ts > 0 /\ game.inputs > 0
  /\ unit[1].obsession = 3 /\ unit[1].health > 0 /\ ~unit[1].ignoreEnemies
  /\ colliderect(unit[1].personal_space, unit[3].personal_space)

C25_PollInterval ==
  /\ [][IsUpdateStep =>
          LET due == game.ai_timer + log'.ts \div 3 >= DIFFICULTY
          IN /\ due => game'.ai_timer = 0
             /\ ~due => /\ game'.ai_timer = game.ai_timer + log'.ts \div 3
                        /\ log'.ai.same /\ log'.ai.orders = 0]_vars
  /\ [][~IsUpdateStep => game'.ai_timer = game.ai_timer]_vars

\* two frames of one second: the first has left the AI idle with one second on
\* its timer, the second has reached DIFFICULTY and the AI has given orders
C25_Witness ==
  game.frames = 2 /\ log.ts = 3000 /\ game.ai_timer = 0 /\ ~log.ai.same /\ log.ai.orders > 0

RECURSIVE C26_Value(_)
C26_Value(ids) ==
  IF ids = <<>> THEN 0
  ELSE (IF IsInfantry(unit[Head(ids)].kind) THEN unitValue(unit[Head(ids)].kind) ELSE 0)
       + C26_Value(Tail(ids))

\* C26: in every reachable state the totalUnitsValue of each player is the sum
\* of unitValue over the Infantry units in its unit list, and so is not
\* negative, whatever was produced, has died or was dropped by a horseman.
C26_PopulationSum ==
  \A p \in {0, 1} :
    /\ pl[p].totalUnitsValue = C26_Value(pl[p].units)
    /\ pl[p].totalUnitsValue >= 0

\* the support of the finished buildings in a unit list, each building once
RECURSIVE C27_Support(_)
C27_Support(ids) ==
  IF ids = <<>> THEN 0
  ELSE LET u == unit[Head(ids)]
           again == \E i \in 2..Len(ids) : ids[i] = Head(ids)
       IN (IF IsBuilding(u.kind) /\ u.didInitializeAfterBuild /\ ~again
           THEN supportedUnits(u.kind) ELSE 0)
          + C27_Support(Tail(ids))

\* C27: in every reachable state the supportedUnitsValue of each player is the
\* sum of supportedUnits over its buildings that have finished construction
\* and run init_after_build, and so is not negative, also after a building
\* was destroyed while under construction.
C27_SupportSum ==
  \A p \in {0, 1} :
    /\ pl[p].supportedUnitsValue = C27_Support(pl[p].units)
    /\ pl[p].supportedUnitsValue >= 0

\* the number of entries of a unit list whose unit is of one of the kinds ks
C28_Count(ids, ks) == Cardinality({i \in 1..Len(ids) : unit[ids[i]].kind \in ks})

\* C28: in every reachable state comandCenterCount is the number of command
\* centers in the player's unit list and supplyDepotCount the number of its
\* supply depots; an add_unit that fails leaves both counters as they were.
C28_BuildingCounters ==
  /\ \A p \in {0, 1} :
       /\ pl[p].comandCenterCount = C28_Count(pl[p].units, {"Tara", "ComandCenter"})
       /\ pl[p].supplyDepotCount = C28_Count(pl[p].units, {"SupplyDepot"})
  /\ \A i \in 1..Len(log.add) :
       ~log.add[i].ok =>
         /\ log.add[i].after.comandCenterCount = log.add[i].before.comandCenterCount
         /\ log.add[i].after.supplyDepotCount = log.add[i].before.supplyDepotCount

\* C29: a live mobile unit that does not hold its position and whose
\* destination is not changed again eventually satisfies at_destination, for
\* every destination a right click or the patrol of the AI can assign; so the
\* patrolling unit is at a destination, and is given a new one, again and again.
C29_Arrives ==
  /\ <>at_destination(unit[1])
  /\ []<>at_destination(unit[2])

\* the same for destinations at which the whole unit is on the map
C29_ArrivesInsideMap ==
  /\ (unit[1].destinationX >= 0 /\ unit[1].destinationY >= 0) => <>at_destination(unit[1])
  /\ [](unit[2].destinationX <= MapWidth - Width("Spearman")
        /\ unit[2].destinationY <= MapHeight - Height("Spearman")
          => <>at_destination(unit[2]))

\* C30: once a unit has died and left the map and its owner's list, no unit
\* attacks it and its health is not modified again: every attack that is
\* resolved has a target that is in the map's unit list, also when several
\* attackers share the obsession.
C30_NoAttackOnRemoved ==
  /\ [](\A i \in 1..Len(log.attack) : log.attack[i].onMap)
  /\ [][\A id \in 1..Len(unit) :
          ~Contains(mapUnits, id) /\ unit[id].health <= 0
            => unit'[id].health = unit[id].health]_vars

====
